---- MODULE Spec2Model ----
(***************************************************************************)
(* Resilience layer of the OpenWebUI tool servers (todoist-tool and        *)
(* caldav-tool): the retry_on_failure decorator (exponential backoff) and  *)
(* the two-tier cache (Redis first, in-process dictionary as fallback).    *)
(*                                                                         *)
(* RetrySpec  : concurrent executions of one wrapped operation.            *)
(* CacheSpec  : set_cached / get_cached calls against both stores, with a  *)
(*              clock and a shared store that comes and goes.              *)
(* FailoverSpec : the same calls with a shared store that never answers.   *)
(* KeySpec    : get_cache_key applied to two requests.                     *)
(* RaceSpec   : two workers calling the cache functions on one key.        *)
(* ExecuteSpec : one execution at a time of a wrapped operation whose      *)
(*              invocations and sleeps all end.                            *)
(* HandlerSpec : requests to the cached list handler and to the write      *)
(*              handlers, served by one worker.                            *)
(* MissSpec   : two workers serving list requests for one key.             *)
(* LockSpec   : the same two workers in either cache mode, with a shared   *)
(*              store that answers throughout or not at all.               *)
(***************************************************************************)
EXTENDS Integers, Sequences, FiniteSets, TLC

VARIABLES
    tool,           \* which server runs: "todoist" or "caldav"
    max_retries,    \* decorator argument max_retries
    base_delay,     \* decorator argument base_delay (in clock units)
    pc,             \* per worker: position inside wrapper
    retries,        \* per worker: the local variable retries of wrapper
    calls,          \* per worker: invocations of func in the current execution
    slept,          \* per worker: arguments of time.sleep in the current execution
    last,           \* per worker: outcome of the most recent invocation of func
    prior,          \* per worker: classes of the failures of the earlier invocations
    result,         \* per worker: what wrapper handed to its caller
    earlier,        \* retryable failures were consumed by an execution that has ended
    CACHE_TYPE,     \* "memory" or "redis"
    now,            \* time.time(), in whole clock units
    _memory_cache,  \* key -> <<value, expiry>>, the in-process dictionary
    _cache_lock,    \* holder of the threading.Lock, or Free
    _redis_client,  \* the module global: "None" or "client"
    redis_up,       \* whether the Redis server answers right now
    redis_data,     \* the Redis database: key -> [value, expires_at]
    cpc,            \* per worker: position inside get_cached / set_cached
    frame,          \* per worker: arguments of the cache call in progress
    ret,            \* per worker: what its last cache call returned, and from where
    sets,           \* set_cached calls made so far
    last_set,       \* the latest completed set_cached of TrackedKey, and the
                    \* use_cache of the request that made it
    clean,          \* per worker: no set_cached of TrackedKey since its get began
    request,        \* per request: prefix and keyword arguments, in the order passed
    cache_key,      \* per request: what get_cache_key returned for it
    entries,        \* the cache entries stored under those keys, and for which request
    endpoint,       \* per worker: the handler serving its request, "list" or "write"
    use_cache,      \* per worker: the use_cache parameter of its request
    fetches         \* per worker: upstream calls made for its request so far

retryVars == <<tool, max_retries, base_delay, pc, retries, calls, slept, last,
               prior, result, earlier>>

cacheVars == <<CACHE_TYPE, now, _memory_cache, _cache_lock, _redis_client,
               redis_up, redis_data, cpc, frame, ret, sets, last_set, clean>>

keyVars == <<request, cache_key, entries>>

handlerVars == <<endpoint, use_cache, fetches>>

vars == <<retryVars, cacheVars, keyVars, handlerVars>>

-----------------------------------------------------------------------------
(* Bounds of the model *)

MaxRetries == 3
MaxBaseDelay == 2
MaxTime == 2
MaxTTL == 2
MaxSets == 2
MaxParams == 2

Workers == {"w1", "w2"}

\* The workers that call the cache in CacheSpec.
CacheCallers == {"w1"}
Tools == {"todoist", "caldav"}

-----------------------------------------------------------------------------
(* Outcomes of one invocation of the wrapped function *)

\* Status codes an HTTPException can carry: below 400, the top of the 4xx
\* class, and the bottom of the 5xx class.
HttpStatuses == {302, 499, 500}

ReturnValues == {"success"}

NoOutcome == [kind |-> "none", status |-> 0, value |-> "", at |-> 0]

\* What func can do in a given server; DAVError exists only where caldav is
\* imported.  "at" is the number of the invocation that produced the outcome.
Outcomes(t, n) ==
    {[kind |-> "ok", status |-> 0, value |-> v, at |-> n] : v \in ReturnValues}
    \cup {[kind |-> "HTTPException", status |-> s, value |-> "", at |-> n] :
              s \in HttpStatuses}
    \cup {[kind |-> k, status |-> 0, value |-> "", at |-> n] :
              k \in {"Timeout", "ConnectionError", "ValueError"}
                    \cup (IF t = "caldav" THEN {"DAVError"} ELSE {})}

NoResult == [type |-> "none", value |-> "", err |-> NoOutcome]

Return(v) == [type |-> "return", value |-> v, err |-> NoOutcome]

\* Mutant of Raise: the error is converted on its way out, the way the
\* handlers convert a RequestException into HTTPException(503).
RaiseConverted(e) ==
    [type |-> "raise", value |-> "",
     err |-> [e EXCEPT !.kind = "HTTPException", !.status = 503]]

\* The bare `raise` of an except clause: the exception being handled.
Raise(e) == [type |-> "raise", value |-> "", err |-> e]

-----------------------------------------------------------------------------
(* retry_on_failure *)

\* Timeout and ConnectionError are subclasses of RequestException.
IsRequestException(kind) == kind \in {"Timeout", "ConnectionError"}

\* Mutant of CaughtAsTransport: the CalDAV server with the Todoist clause.
CaughtRequestsOnly(t, kind) == IsRequestException(kind)

\* Mutant of CaughtAsTransport: `except Exception`, every error that is not
\* an HTTPException is retried.
CaughtEveryError(t, kind) == kind # "HTTPException"

\* First except clause: RequestException, and DAVError in the CalDAV server.
CaughtAsTransport(t, kind) ==
    IsRequestException(kind) \/ (t = "caldav" /\ kind = "DAVError")

\* Mutants of IsTerminalStatus.
TerminalOnly4xx(status) == status >= 400 /\ status < 500
TerminalBelow499(status) == status < 499

\* `if e.status_code < 500: raise`
IsTerminalStatus(status) == status < 500

\* Mutants of Exhausted.
ExhaustedEarly(r, n) == r >= n
ExhaustedLate(r, n) == r > n + 1
ExhaustedNever(r, n) == FALSE

\* `if retries > max_retries: raise`
Exhausted(r, n) == r > n

\* Mutants of Delay.
DelayDoubledOnce(base, r) == base * (2 ^ r)
DelayLinear(base, r) == base * r

\* `delay = base_delay * (2 ** (retries - 1))`
Delay(base, r) == base * (2 ^ (r - 1))

\* Mutant of FreshRetries: the counter survives from the previous execution.
KeptRetries(previous) == previous

\* `retries = 0` at the top of wrapper.
FreshRetries(previous) == 0

\* Class of a failure by what it is, independent of how wrapper treats it.
ClassOf(o) ==
    CASE o.kind = "HTTPException" /\ o.status >= 500 -> "5xx"
      [] o.kind = "HTTPException" -> "below500"
      [] o.kind \in {"Timeout", "ConnectionError"} -> "requests"
      [] o.kind = "DAVError" -> "dav"
      [] o.kind = "ok" -> "ok"
      [] OTHER -> "other"

RECURSIVE Sum(_)
Sum(s) == IF s = <<>> THEN 0 ELSE Head(s) + Sum(Tail(s))

\* A caller enters wrapper: the worker's first request, or its next one after
\* the previous execution handed its result to the caller.
Call(w) ==
    /\ pc[w] \in {"idle", "returned", "raised"}
    /\ pc' = [pc EXCEPT ![w] = "loop"]
    /\ retries' = [retries EXCEPT ![w] = FreshRetries(retries[w])]
    /\ calls' = [calls EXCEPT ![w] = 0]
    /\ slept' = [slept EXCEPT ![w] = <<>>]
    /\ last' = [last EXCEPT ![w] = NoOutcome]
    /\ prior' = [prior EXCEPT ![w] = {}]
    /\ result' = [result EXCEPT ![w] = NoResult]
    /\ earlier' = (earlier \/ retries[w] > 0)
    /\ UNCHANGED <<tool, max_retries, base_delay>>
    /\ UNCHANGED <<cacheVars, keyVars, handlerVars>>

\* The retryable branch shared by both except clauses: count, give up or
\* compute the delay and enter time.sleep.
Retry(w, o) ==
    /\ retries' = [retries EXCEPT ![w] = retries[w] + 1]
    /\ IF Exhausted(retries[w] + 1, max_retries)
       THEN /\ pc' = [pc EXCEPT ![w] = "raised"]
            /\ result' = [result EXCEPT ![w] = Raise(o)]
            /\ slept' = slept
       ELSE /\ pc' = [pc EXCEPT ![w] = "sleep"]
            /\ result' = result
            /\ slept' = [slept EXCEPT
                           ![w] = Append(slept[w], Delay(base_delay, retries[w] + 1))]

\* One pass of the while loop: invoke func and handle what it does.
Attempt(w) ==
    /\ pc[w] = "loop"
    /\ retries[w] <= max_retries
    /\ \E o \in Outcomes(tool, calls[w] + 1) :
        /\ calls' = [calls EXCEPT ![w] = calls[w] + 1]
        /\ last' = [last EXCEPT ![w] = o]
        /\ prior' = [prior EXCEPT
                       ![w] = IF last[w] = NoOutcome THEN prior[w]
                              ELSE prior[w] \cup {ClassOf(last[w])}]
        /\ IF o.kind = "ok"
           THEN /\ pc' = [pc EXCEPT ![w] = "returned"]
                /\ result' = [result EXCEPT ![w] = Return(o.value)]
                /\ UNCHANGED <<retries, slept>>
           ELSE IF CaughtAsTransport(tool, o.kind)
           THEN Retry(w, o)
           ELSE IF o.kind = "HTTPException" /\ ~IsTerminalStatus(o.status)
           THEN Retry(w, o)
           ELSE \* a terminal HTTPException, or an exception no clause catches
                /\ pc' = [pc EXCEPT ![w] = "raised"]
                /\ result' = [result EXCEPT ![w] = Raise(o)]
                /\ UNCHANGED <<retries, slept>>
    /\ UNCHANGED <<tool, max_retries, base_delay, earlier>>
    /\ UNCHANGED <<cacheVars, keyVars, handlerVars>>

\* time.sleep returns; back to the loop head.
WakeUp(w) ==
    /\ pc[w] = "sleep"
    /\ pc' = [pc EXCEPT ![w] = "loop"]
    /\ UNCHANGED <<tool, max_retries, base_delay, retries, calls, slept, last,
                   prior, result, earlier>>
    /\ UNCHANGED <<cacheVars, keyVars, handlerVars>>

-----------------------------------------------------------------------------
(* The cache: get_cached / set_cached over Redis and the in-process dict *)

Keys == {"k1", "k2"}

\* The key whose latest set_cached the model remembers (last_set); either
\* key would do, the two are treated alike.
TrackedKey == "k1"

\* Python values handed to set_cached: two JSON arrays and a tuple with the
\* elements of the first.
Values == {"listA", "listB", "tupleA"}

None == "None"

\* ttl arguments: negative, zero and positive whole numbers.
TTLs == -1..MaxTTL

\* Arguments of the set_cached calls of a run.  TrackedKey is written with
\* every value and every ttl; the other key stands for the rest of the
\* cache's traffic and is written with one value and the longest ttl.
SetChoices(k) ==
    IF k = TrackedKey THEN Values \X TTLs ELSE {<<"listB", MaxTTL>>}

Free == "free"

\* The redis package is importable; a server without it behaves as one
\* with CACHE_TYPE = "memory".
REDIS_AVAILABLE == TRUE

\* `if CACHE_TYPE == "redis" and REDIS_AVAILABLE`
RedisEnabled == CACHE_TYPE = "redis" /\ REDIS_AVAILABLE

\* json.dumps: a tuple is written as an array.
JsonDumps(v) ==
    CASE v = "listA" -> "[a]"
      [] v = "tupleA" -> "[a]"
      [] v = "listB" -> "[b]"

\* json.loads: an array is read as a list.
JsonLoads(text) ==
    CASE text = "[a]" -> "listA"
      [] text = "[b]" -> "listB"

NoFrame == [op |-> "none", key |-> "", value |-> None, ttl |-> 0]

NoReturn == [op |-> "none", key |-> "", value |-> None, via |-> "", count |-> 0]

NoSet == [value |-> None, lasting |-> FALSE, deadline |-> 0, store |-> "",
          use_cache |-> TRUE]

\* Mutant of Fresh: the memory cache never answers with a value.
FreshNever(t, expiry) == FALSE

\* Mutant of Fresh: an entry is still served at the instant of its expiry.
FreshAtExpiry(t, expiry) == t <= expiry

\* Mutant of Fresh: an entry is dropped one clock unit before its expiry.
FreshOneEarly(t, expiry) == t + 1 < expiry

\* Mutant of Expiry: the ttl is left out of the expiry.
ExpiryWithoutTtl(t, ttl) == t

\* Mutant of Expiry: the clock is left out of the expiry.
ExpiryWithoutClock(t, ttl) == ttl

\* `expiry = time.time() + ttl`
Expiry(t, ttl) == t + ttl

\* `if time.time() < expiry`
Fresh(t, expiry) == t < expiry

\* Mutant of ClientAfterConnect: the client is dropped whenever the server
\* does not answer.
ClientDroppedOnFailure ==
    IF RedisEnabled /\ redis_up THEN "client" ELSE "None"

\* get_redis_client(): the client installed, after a connection attempt when
\* none is (Redis(...), ping and info succeed exactly when the server
\* answers; a failed attempt leaves None).
ClientAfterConnect ==
    IF _redis_client = "None" /\ RedisEnabled
    THEN (IF redis_up THEN "client" ELSE "None")
    ELSE _redis_client

\* Mutant of RedisGet: the lookup ignores the key and answers with any live
\* entry of the database.
RedisGetAnyKey(k) ==
    IF \E x \in DOMAIN redis_data : now < redis_data[x].expires_at
    THEN redis_data[CHOOSE x \in DOMAIN redis_data :
                        now < redis_data[x].expires_at].value
    ELSE None

\* redis.get(key): the stored text; Redis never returns a key whose time to
\* live has run out.
RedisGet(k) ==
    IF k \in DOMAIN redis_data /\ now < redis_data[k].expires_at
    THEN redis_data[k].value
    ELSE None

\* SETEX refuses a time to live that is not positive.
SetexAccepts(ttl) == ttl > 0

NoError == "none"

\* What a call on the Redis client raises when the server does not answer.
ConnectionFailures == {"ConnectionError", "TimeoutError"}

\* Subclasses of redis.exceptions.RedisError.
IsRedisError(e) == e \in {"ConnectionError", "TimeoutError", "ResponseError"}

\* Subclasses of Exception.
IsException(e) ==
    e \in {"ConnectionError", "TimeoutError", "ResponseError", "TypeError"}

\* What the Redis call of a cache function raises now: nothing, the
\* connection failures of an unreachable server, or the refusal of SETEX.
RedisFailure(op, ttl) ==
    IF ~redis_up THEN ConnectionFailures
    ELSE IF op = "setex" /\ ~SetexAccepts(ttl) THEN {"ResponseError"}
    ELSE {}

\* Mutant of CaughtByCache: `except ConnectionError`.
CaughtConnectionOnly(e) == e = "ConnectionError"

\* Mutant of CaughtByCache: `except TimeoutError`.
CaughtTimeoutOnly(e) == e = "TimeoutError"

\* Mutant of CaughtByCache: `except ResponseError`.
CaughtResponseOnly(e) == e = "ResponseError"

\* `except (RedisError, Exception)`: the clause of get_redis_client,
\* get_cached, set_cached and get_cache_stats.
CaughtByCache(e) == IsRedisError(e) \/ IsException(e)

\* The Redis branch of a cache function, `redis = get_redis_client()`
\* included: the ways it can end and the client it leaves installed.
\*   "ok"    the Redis call answered and the function returns from the branch
\*   "fall"  memory mode, no client, or an error caught: on to the memory cache
\*   "raise" an error escaped the except clause
RedisBranch(op, ttl) ==
    IF ~RedisEnabled
    THEN {[kind |-> "fall", err |-> NoError, client |-> _redis_client]}
    ELSE IF _redis_client = "None" /\ ~redis_up
    THEN {IF CaughtByCache(e)
          THEN [kind |-> "fall", err |-> NoError, client |-> ClientAfterConnect]
          ELSE [kind |-> "raise", err |-> e, client |-> "client"]
          : e \in ConnectionFailures}
    ELSE IF RedisFailure(op, ttl) = {}
    THEN {[kind |-> "ok", err |-> NoError, client |-> ClientAfterConnect]}
    ELSE {IF CaughtByCache(e)
          THEN [kind |-> "fall", err |-> NoError, client |-> ClientAfterConnect]
          ELSE [kind |-> "raise", err |-> e, client |-> ClientAfterConnect]
          : e \in RedisFailure(op, ttl)}

\* A set_cached of TrackedKey is between its call and its return.
SetInFlight ==
    \E w \in Workers : frame[w].op = "set" /\ frame[w].key = TrackedKey

Returned(w, op, k, v, via) ==
    /\ cpc' = [cpc EXCEPT ![w] = "done"]
    /\ frame' = [frame EXCEPT ![w] = NoFrame]
    /\ ret' = [ret EXCEPT ![w] = [op |-> op, key |-> k, value |-> v,
                                  via |-> via, count |-> 0]]

\* Mutant of GetEnter: a miss in Redis goes on to the memory cache.
GetEnterFallingOnMiss(w, k) ==
    /\ cpc[w] \in {"idle", "done"}
    /\ clean' = [clean EXCEPT
                   ![w] = k = TrackedKey /\ last_set # NoSet /\ ~SetInFlight]
    /\ \E o \in RedisBranch("get", 0) :
          /\ _redis_client' = o.client
          /\ CASE o.kind = "ok" ->
                   IF RedisGet(k) # None
                   THEN Returned(w, "get", k, JsonLoads(RedisGet(k)), "redis")
                   ELSE /\ cpc' = [cpc EXCEPT ![w] = "get_lock"]
                        /\ frame' = [frame EXCEPT
                                       ![w] = [op |-> "get", key |-> k,
                                               value |-> None, ttl |-> 0]]
                        /\ ret' = [ret EXCEPT ![w] = NoReturn]
               [] o.kind = "fall" ->
                   /\ cpc' = [cpc EXCEPT ![w] = "get_lock"]
                   /\ frame' = [frame EXCEPT
                                  ![w] = [op |-> "get", key |-> k,
                                          value |-> None, ttl |-> 0]]
                   /\ ret' = [ret EXCEPT ![w] = NoReturn]
               [] o.kind = "raise" ->
                   Returned(w, "get", k, o.err, "raise")
    /\ UNCHANGED <<CACHE_TYPE, now, _memory_cache, _cache_lock, redis_up,
                   redis_data, sets, last_set>>
    /\ UNCHANGED <<retryVars, keyVars, handlerVars>>

\* get_cached(key), up to the return from the Redis branch or to the
\* `with _cache_lock` of the memory branch.
GetEnter(w, k) ==
    /\ cpc[w] \in {"idle", "done"}
    /\ clean' = [clean EXCEPT
                   ![w] = k = TrackedKey /\ last_set # NoSet /\ ~SetInFlight]
    /\ \E o \in RedisBranch("get", 0) :
          /\ _redis_client' = o.client
          /\ CASE o.kind = "ok" ->
                   \* redis.get answered: a hit or a miss, the memory cache
                   \* is not read
                   Returned(w, "get", k,
                            IF RedisGet(k) # None THEN JsonLoads(RedisGet(k))
                            ELSE None,
                            "redis")
               [] o.kind = "fall" ->
                   /\ cpc' = [cpc EXCEPT ![w] = "get_lock"]
                   /\ frame' = [frame EXCEPT
                                  ![w] = [op |-> "get", key |-> k,
                                          value |-> None, ttl |-> 0]]
                   /\ ret' = [ret EXCEPT ![w] = NoReturn]
               [] o.kind = "raise" ->
                   Returned(w, "get", k, o.err, "raise")
    /\ UNCHANGED <<CACHE_TYPE, now, _memory_cache, _cache_lock, redis_up,
                   redis_data, sets, last_set>>
    /\ UNCHANGED <<retryVars, keyVars, handlerVars>>

\* Mutant of Acquire: the block is entered without waiting for the lock.
AcquireWithoutWaiting(w) ==
    /\ cpc[w] \in {"get_lock", "set_lock", "stats_lock"}
    /\ _cache_lock' = w
    /\ cpc' = [cpc EXCEPT ![w] = CASE cpc[w] = "get_lock" -> "get_locked"
                                   [] cpc[w] = "set_lock" -> "set_locked"
                                   [] cpc[w] = "stats_lock" -> "stats_locked"]
    /\ UNCHANGED <<CACHE_TYPE, now, _memory_cache, _redis_client, redis_up,
                   redis_data, frame, ret, sets, last_set, clean>>
    /\ UNCHANGED <<retryVars, keyVars, handlerVars>>

\* `with _cache_lock:` entered.
Acquire(w) ==
    /\ cpc[w] \in {"get_lock", "set_lock", "stats_lock"}
    /\ _cache_lock = Free
    /\ _cache_lock' = w
    /\ cpc' = [cpc EXCEPT ![w] = CASE cpc[w] = "get_lock" -> "get_locked"
                                   [] cpc[w] = "set_lock" -> "set_locked"
                                   [] cpc[w] = "stats_lock" -> "stats_locked"]
    /\ UNCHANGED <<CACHE_TYPE, now, _memory_cache, _redis_client, redis_up,
                   redis_data, frame, ret, sets, last_set, clean>>
    /\ UNCHANGED <<retryVars, keyVars, handlerVars>>

\* Mutant of GetBody: a hit renews the expiry of the entry.
GetBodyRenewing(w) ==
    /\ cpc[w] = "get_locked"
    /\ LET k == frame[w].key IN
       IF k \in DOMAIN _memory_cache
       THEN IF Fresh(now, _memory_cache[k][2])
            THEN /\ Returned(w, "get", k, _memory_cache[k][1], "memory")
                 /\ _memory_cache' =
                        [_memory_cache EXCEPT ![k] = <<@[1], @[2] + 1>>]
            ELSE /\ Returned(w, "get", k, None, "memory")
                 /\ _memory_cache' =
                        [x \in DOMAIN _memory_cache \ {k} |-> _memory_cache[x]]
       ELSE /\ Returned(w, "get", k, None, "memory")
            /\ _memory_cache' = _memory_cache
    /\ _cache_lock' = Free
    /\ UNCHANGED <<CACHE_TYPE, now, _redis_client, redis_up, redis_data,
                   sets, last_set, clean>>
    /\ UNCHANGED <<retryVars, keyVars, handlerVars>>

\* Mutant of GetBody: the lookup deletes the entry whether or not it has
\* expired.
GetBodyDeletingFresh(w) ==
    /\ cpc[w] = "get_locked"
    /\ LET k == frame[w].key IN
       IF k \in DOMAIN _memory_cache
       THEN IF Fresh(now, _memory_cache[k][2])
            THEN /\ Returned(w, "get", k, _memory_cache[k][1], "memory")
                 /\ _memory_cache' =
                        [x \in DOMAIN _memory_cache \ {k} |-> _memory_cache[x]]
            ELSE /\ Returned(w, "get", k, None, "memory")
                 /\ _memory_cache' =
                        [x \in DOMAIN _memory_cache \ {k} |-> _memory_cache[x]]
       ELSE /\ Returned(w, "get", k, None, "memory")
            /\ _memory_cache' = _memory_cache
    /\ _cache_lock' = Free
    /\ UNCHANGED <<CACHE_TYPE, now, _redis_client, redis_up, redis_data,
                   sets, last_set, clean>>
    /\ UNCHANGED <<retryVars, keyVars, handlerVars>>

\* Mutant of GetBody: the lookup returns without releasing the lock.
GetBodyKeepingLock(w) ==
    /\ cpc[w] = "get_locked"
    /\ LET k == frame[w].key IN
       IF k \in DOMAIN _memory_cache
       THEN IF Fresh(now, _memory_cache[k][2])
            THEN /\ Returned(w, "get", k, _memory_cache[k][1], "memory")
                 /\ _memory_cache' = _memory_cache
            ELSE /\ Returned(w, "get", k, None, "memory")
                 /\ _memory_cache' =
                        [x \in DOMAIN _memory_cache \ {k} |-> _memory_cache[x]]
       ELSE /\ Returned(w, "get", k, None, "memory")
            /\ _memory_cache' = _memory_cache
    /\ _cache_lock' = w
    /\ UNCHANGED <<CACHE_TYPE, now, _redis_client, redis_up, redis_data,
                   sets, last_set, clean>>
    /\ UNCHANGED <<retryVars, keyVars, handlerVars>>

\* The body of get_cached under the lock, and the return.
GetBody(w) ==
    /\ cpc[w] = "get_locked"
    /\ LET k == frame[w].key IN
       IF k \in DOMAIN _memory_cache
       THEN IF Fresh(now, _memory_cache[k][2])
            THEN /\ Returned(w, "get", k, _memory_cache[k][1], "memory")
                 /\ _memory_cache' = _memory_cache
            ELSE /\ Returned(w, "get", k, None, "memory")
                 /\ _memory_cache' =
                        [x \in DOMAIN _memory_cache \ {k} |-> _memory_cache[x]]
       ELSE /\ Returned(w, "get", k, None, "memory")
            /\ _memory_cache' = _memory_cache
    /\ _cache_lock' = Free
    /\ UNCHANGED <<CACHE_TYPE, now, _redis_client, redis_up, redis_data,
                   sets, last_set, clean>>
    /\ UNCHANGED <<retryVars, keyVars, handlerVars>>

\* set_cached(key, value, ttl), up to the return from the Redis branch or to
\* the `with _cache_lock` of the memory branch.
SetEnter(w, k, v, ttl) ==
    /\ cpc[w] \in {"idle", "done"}
    /\ sets < MaxSets
    /\ sets' = sets + 1
    /\ clean' = IF k = TrackedKey THEN [x \in Workers |-> FALSE] ELSE clean
    /\ \E o \in RedisBranch("setex", ttl) :
          /\ _redis_client' = o.client
          /\ CASE o.kind = "ok" ->
                   /\ redis_data' =
                         [x \in DOMAIN redis_data \cup {k} |->
                             IF x = k
                             THEN [value |-> JsonDumps(v),
                                   expires_at |-> now + ttl]
                             ELSE redis_data[x]]
                   /\ Returned(w, "set", k, None, "redis")
                   /\ last_set' = IF k = TrackedKey
                                  THEN [value |-> v, lasting |-> ttl > 0,
                                        deadline |-> now + ttl,
                                        store |-> "redis",
                                        use_cache |-> use_cache[w]]
                                  ELSE last_set
               [] o.kind = "fall" ->
                   /\ cpc' = [cpc EXCEPT ![w] = "set_lock"]
                   /\ frame' = [frame EXCEPT
                                  ![w] = [op |-> "set", key |-> k,
                                          value |-> v, ttl |-> ttl]]
                   /\ ret' = [ret EXCEPT ![w] = NoReturn]
                   /\ UNCHANGED <<redis_data, last_set>>
               [] o.kind = "raise" ->
                   /\ Returned(w, "set", k, o.err, "raise")
                   /\ UNCHANGED <<redis_data, last_set>>
    /\ UNCHANGED <<CACHE_TYPE, now, _memory_cache, _cache_lock, redis_up>>
    /\ UNCHANGED <<retryVars, keyVars, handlerVars>>

\* Mutant of SetBody: the write drops the entries whose expiry has passed.
SetBodySweeping(w) ==
    /\ cpc[w] = "set_locked"
    /\ LET k == frame[w].key
           entry == <<frame[w].value, Expiry(now, frame[w].ttl)>>
       IN /\ _memory_cache' =
                [x \in {y \in DOMAIN _memory_cache :
                           now < _memory_cache[y][2]} \cup {k} |->
                    IF x = k THEN entry ELSE _memory_cache[x]]
          /\ last_set' = IF k = TrackedKey
                         THEN [value |-> frame[w].value,
                               lasting |-> frame[w].ttl > 0,
                               deadline |-> now + frame[w].ttl,
                               store |-> "memory",
                               use_cache |-> use_cache[w]]
                         ELSE last_set
          /\ Returned(w, "set", k, None, "memory")
    /\ _cache_lock' = Free
    /\ UNCHANGED <<CACHE_TYPE, now, _redis_client, redis_up, redis_data, sets,
                   clean>>
    /\ UNCHANGED <<retryVars, keyVars, handlerVars>>

\* The body of set_cached under the lock, and the return.
SetBody(w) ==
    /\ cpc[w] = "set_locked"
    /\ LET k == frame[w].key
           entry == <<frame[w].value, Expiry(now, frame[w].ttl)>>
       IN /\ _memory_cache' =
                [x \in DOMAIN _memory_cache \cup {k} |->
                    IF x = k THEN entry ELSE _memory_cache[x]]
          /\ last_set' = IF k = TrackedKey
                         THEN [value |-> frame[w].value,
                               lasting |-> frame[w].ttl > 0,
                               deadline |-> now + frame[w].ttl,
                               store |-> "memory",
                               use_cache |-> use_cache[w]]
                         ELSE last_set
          /\ Returned(w, "set", k, None, "memory")
    /\ _cache_lock' = Free
    /\ UNCHANGED <<CACHE_TYPE, now, _redis_client, redis_up, redis_data, sets,
                   clean>>
    /\ UNCHANGED <<retryVars, keyVars, handlerVars>>

\* get_cache_stats(), up to the return from the Redis branch or to the
\* `with _cache_lock` of the memory branch.
StatsEnter(w) ==
    /\ cpc[w] \in {"idle", "done"}
    /\ \E o \in RedisBranch("info", 0) :
          /\ _redis_client' = o.client
          /\ CASE o.kind = "ok" ->
                   \* {"type": "redis", "keys": redis.dbsize(), ...}
                   /\ cpc' = [cpc EXCEPT ![w] = "done"]
                   /\ frame' = [frame EXCEPT ![w] = NoFrame]
                   /\ ret' = [ret EXCEPT
                                ![w] = [op |-> "stats", key |-> "",
                                        value |-> None, via |-> "redis",
                                        count |-> Cardinality(DOMAIN redis_data)]]
               [] o.kind = "fall" ->
                   /\ cpc' = [cpc EXCEPT ![w] = "stats_lock"]
                   /\ frame' = [frame EXCEPT
                                  ![w] = [op |-> "stats", key |-> "",
                                          value |-> None, ttl |-> 0]]
                   /\ ret' = [ret EXCEPT ![w] = NoReturn]
               [] o.kind = "raise" ->
                   Returned(w, "stats", "", o.err, "raise")
    /\ UNCHANGED <<CACHE_TYPE, now, _memory_cache, _cache_lock, redis_up,
                   redis_data, sets, last_set, clean>>
    /\ UNCHANGED <<retryVars, keyVars, handlerVars>>

\* Mutant of StatsBody: the entries whose expiry has passed are dropped
\* before they are counted.
StatsBodyEvicting(w) ==
    /\ cpc[w] = "stats_locked"
    /\ cpc' = [cpc EXCEPT ![w] = "done"]
    /\ frame' = [frame EXCEPT ![w] = NoFrame]
    /\ _memory_cache' =
          [x \in {y \in DOMAIN _memory_cache : now < _memory_cache[y][2]}
              |-> _memory_cache[x]]
    /\ ret' = [ret EXCEPT
                 ![w] = [op |-> "stats", key |-> "", value |-> None,
                         via |-> "memory",
                         count |-> Cardinality(DOMAIN _memory_cache')]]
    /\ _cache_lock' = Free
    /\ UNCHANGED <<CACHE_TYPE, now, _redis_client, redis_up,
                   redis_data, sets, last_set, clean>>
    /\ UNCHANGED <<retryVars, keyVars, handlerVars>>

\* The body of get_cache_stats under the lock, and the return:
\* {"type": "memory", "entries": len(_memory_cache), ...}
StatsBody(w) ==
    /\ cpc[w] = "stats_locked"
    /\ cpc' = [cpc EXCEPT ![w] = "done"]
    /\ frame' = [frame EXCEPT ![w] = NoFrame]
    /\ ret' = [ret EXCEPT
                 ![w] = [op |-> "stats", key |-> "", value |-> None,
                         via |-> "memory",
                         count |-> Cardinality(DOMAIN _memory_cache)]]
    /\ _cache_lock' = Free
    /\ UNCHANGED <<CACHE_TYPE, now, _memory_cache, _redis_client, redis_up,
                   redis_data, sets, last_set, clean>>
    /\ UNCHANGED <<retryVars, keyVars, handlerVars>>

\* The clock advances; Redis drops the keys whose time to live has run out.
Tick ==
    /\ now < MaxTime
    /\ now' = now + 1
    /\ redis_data' =
          [x \in {y \in DOMAIN redis_data : now + 1 < redis_data[y].expires_at}
              |-> redis_data[x]]
    /\ UNCHANGED <<CACHE_TYPE, _memory_cache, _cache_lock, _redis_client,
                   redis_up, cpc, frame, ret, sets, last_set, clean>>
    /\ UNCHANGED <<retryVars, keyVars, handlerVars>>

\* The Redis server becomes unreachable, or reachable again.
RedisFlips ==
    /\ RedisEnabled
    /\ redis_up' = ~redis_up
    /\ UNCHANGED <<CACHE_TYPE, now, _memory_cache, _cache_lock, _redis_client,
                   redis_data, cpc, frame, ret, sets, last_set, clean>>
    /\ UNCHANGED <<retryVars, keyVars, handlerVars>>

-----------------------------------------------------------------------------
(* get_cache_key *)

\* The prefixes the servers pass: list_tasks and list_events.
Prefixes == {"tasks", "events"}

ParamNames == {"label", "priority"}

\* The order of the names as strings: "label" < "priority".
NameRank(n) == CASE n = "label" -> 1 [] n = "priority" -> 2

\* Python values of a query parameter: None, the integers 3 and 4, and the
\* string '4'.
ParamValues == {None, "3", "4", "'4'"}

\* Keyword arguments: name/value pairs with distinct names, in the order
\* the caller wrote them.
Kwargs ==
    {s \in UNION {[1..n -> ParamNames \X ParamValues] : n \in 0..MaxParams} :
        \A i, j \in DOMAIN s : i # j => s[i][1] # s[j][1]}

Requests == [prefix : Prefixes, kwargs : Kwargs]

RequestIds == {1, 2}

NoRequest == [prefix |-> "", kwargs |-> <<>>]

\* Mutant of JsonParam: str(value), a string is written without quotes.
StrParam(v) ==
    CASE v = None -> "None"
      [] v = "3" -> "3"
      [] v = "4" -> "4"
      [] v = "'4'" -> "4"

\* json.dumps of one value.
JsonParam(v) ==
    CASE v = None -> "null"
      [] v = "3" -> "3"
      [] v = "4" -> "4"
      [] v = "'4'" -> "\"4\""

\* Mutant of SortedItems: sort_keys=False, the items stay in the order of
\* the call.
UnsortedItems(kwargs) == kwargs

\* sort_keys=True: the items in the order of their names.
SortedItems(kwargs) ==
    LET n == Len(kwargs)
        pos(i) == 1 + Cardinality({j \in 1..n :
                         NameRank(kwargs[j][1]) < NameRank(kwargs[i][1])})
    IN [p \in 1..n |-> kwargs[CHOOSE i \in 1..n : pos(i) = p]]

\* json.dumps(kwargs, sort_keys=True): the members of the JSON object.
JsonDumpsSorted(kwargs) ==
    [p \in 1..Len(kwargs) |->
        <<SortedItems(kwargs)[p][1], JsonParam(SortedItems(kwargs)[p][2])>>]

\* f"{prefix}:{json.dumps(kwargs, sort_keys=True)}"
KeyData(prefix, kwargs) ==
    [prefix |-> prefix, json |-> JsonDumpsSorted(kwargs)]

\* hashlib.md5(...).hexdigest(), taken free of collisions: equal digests
\* come from equal texts.
Md5(text) == [md5_of |-> text]

NoKey == Md5(KeyData("", <<>>))

get_cache_key(prefix, kwargs) == Md5(KeyData(prefix, kwargs))

\* The request as a query: its prefix and its set of name/value pairs.
Query(r) == [prefix |-> r.prefix,
             params |-> {r.kwargs[i] : i \in DOMAIN r.kwargs}]

\* `cache_key = get_cache_key(...)` of a handler, for request i.
KeyCall(i) ==
    /\ cache_key[i] = NoKey
    /\ cache_key' = [cache_key EXCEPT
                       ![i] = get_cache_key(request[i].prefix,
                                            request[i].kwargs)]
    /\ UNCHANGED <<request, entries>>
    /\ UNCHANGED <<retryVars, cacheVars, handlerVars>>

\* `set_cached(cache_key, ...)` of a handler: the result of request i is
\* stored under its key, replacing what the key held.
KeyStore(i) ==
    /\ cache_key[i] # NoKey
    /\ [key |-> cache_key[i], of |-> Query(request[i])] \notin entries
    /\ entries' = {e \in entries : e.key # cache_key[i]}
                     \cup {[key |-> cache_key[i], of |-> Query(request[i])]}
    /\ UNCHANGED <<request, cache_key>>
    /\ UNCHANGED <<retryVars, cacheVars, handlerVars>>

-----------------------------------------------------------------------------
(* The handlers: list_tasks / list_events (cached) and the write handlers *)

\* @retry_on_failure(max_retries=3, base_delay=1.0) on every handler.
HANDLER_MAX_RETRIES == 3
HANDLER_BASE_DELAY == 1

\* CACHE_TTL, the ttl set_cached takes by default, scaled to the clock of
\* the model.
CACHE_TTL == MaxTTL - 1

Endpoints == {"list", "write"}

\* The requests a client can make: list with use_cache true or false, or a
\* write (which has no use_cache parameter).
RequestKinds == {<<"list", TRUE>>, <<"list", FALSE>>, <<"write", FALSE>>}

\* The bodies of a 200 response.
UpstreamLists == {"listA", "listB"}

\* response.text of a response whose status is not 200.
ErrorBody == "listA"

\* What the upstream call of a handler does.  Todoist: a 200 response with a
\* body, a response with another status and its body, or a
\* RequestException.  CalDAV: the events, no calendar to search (the handler
\* raises 404), a DAVError or a failed connection.
Responses(t, n) ==
    {[kind |-> "ok", status |-> 200, value |-> v, at |-> n] :
        v \in UpstreamLists}
    \cup (IF t = "todoist"
          THEN {[kind |-> "status", status |-> s, value |-> ErrorBody, at |-> n] :
                   s \in HttpStatuses}
               \cup {[kind |-> k, status |-> 0, value |-> "", at |-> n] :
                        k \in {"Timeout", "ConnectionError"}}
          ELSE {[kind |-> k, status |-> 0, value |-> "", at |-> n] :
                   k \in {"NoCalendar", "DAVError", "ConnectionError"}})

\* The exception that leaves the handler when the upstream call failed.
\* Todoist: HTTPException(response.status_code), and a RequestException
\* becomes HTTPException(503).  CalDAV: its own HTTPException(404) is
\* re-raised, any other exception becomes HTTPException(500).
HandlerError(t, u) ==
    [kind |-> "HTTPException",
     status |-> IF t = "todoist"
                THEN (IF u.kind = "status" THEN u.status ELSE 503)
                ELSE (IF u.kind = "NoCalendar" THEN 404 ELSE 500),
     value |-> "",
     at |-> u.at]

\* Mutant of ConsultsCache.
ConsultsAlways(uc) == TRUE

\* `if use_cache:` before the lookup.
ConsultsCache(uc) == uc

\* Mutant of IsHit: what get_cached returned is ignored.
IsHitNever(cached) == FALSE

\* `if cached is not None:`
IsHit(cached) == cached # None

\* Mutant of ReachesSetCached: the body of a response is cached whatever its
\* status.
ReachesSetCachedAnyStatus(u) == u.kind \in {"ok", "status"}

\* The handler gets as far as set_cached only with a 200 response.
ReachesSetCached(u) == u.kind = "ok"

\* A worker takes a request and enters the wrapper of its handler.
Request(w, ep, uc) ==
    /\ pc[w] \in {"idle", "returned", "raised"}
    /\ endpoint' = [endpoint EXCEPT ![w] = ep]
    /\ use_cache' = [use_cache EXCEPT ![w] = uc]
    /\ fetches' = [fetches EXCEPT ![w] = 0]
    /\ pc' = [pc EXCEPT ![w] = "loop"]
    /\ retries' = [retries EXCEPT ![w] = FreshRetries(retries[w])]
    /\ calls' = [calls EXCEPT ![w] = 0]
    /\ slept' = [slept EXCEPT ![w] = <<>>]
    /\ last' = [last EXCEPT ![w] = NoOutcome]
    /\ prior' = [prior EXCEPT ![w] = {}]
    /\ result' = [result EXCEPT ![w] = NoResult]
    /\ earlier' = (earlier \/ retries[w] > 0)
    /\ UNCHANGED <<tool, max_retries, base_delay>>
    /\ UNCHANGED <<cacheVars, keyVars>>

\* The wrapper invokes the list handler, which calls get_cached.
Lookup(w) ==
    /\ pc[w] = "loop"
    /\ retries[w] <= max_retries
    /\ endpoint[w] = "list"
    /\ ConsultsCache(use_cache[w])
    /\ cpc[w] = "idle"
    /\ GetEnter(w, TrackedKey)

\* The invocation is over: it is counted and its outcome remembered.
Invoked(w, o) ==
    /\ calls' = [calls EXCEPT ![w] = calls[w] + 1]
    /\ last' = [last EXCEPT ![w] = o]
    /\ prior' = [prior EXCEPT
                   ![w] = IF last[w] = NoOutcome THEN prior[w]
                          ELSE prior[w] \cup {ClassOf(last[w])}]

\* get_cached has returned: `if cached is not None: return cached`, else on
\* to the upstream call.
AfterLookup(w) ==
    /\ pc[w] = "loop"
    /\ cpc[w] = "done"
    /\ ret[w].op = "get"
    /\ ret[w].via # "raise"
    /\ cpc' = [cpc EXCEPT ![w] = "idle"]
    /\ IF IsHit(ret[w].value)
       THEN /\ pc' = [pc EXCEPT ![w] = "returned"]
            /\ result' = [result EXCEPT ![w] = Return(ret[w].value)]
            /\ Invoked(w, [kind |-> "ok", status |-> 0,
                           value |-> ret[w].value, at |-> calls[w] + 1])
       ELSE /\ pc' = [pc EXCEPT ![w] = "upstream"]
            /\ UNCHANGED <<calls, last, prior, result>>
    /\ UNCHANGED <<tool, max_retries, base_delay, retries, slept, earlier>>
    /\ UNCHANGED <<CACHE_TYPE, now, _memory_cache, _cache_lock, _redis_client,
                   redis_up, redis_data, frame, ret, sets, last_set, clean>>
    /\ UNCHANGED <<keyVars, handlerVars>>

\* Mutant of AtUpstream: only the first attempt of an execution looks the
\* key up; a retry may go straight to the upstream call.
AtUpstreamSkippingOnRetry(w) ==
    \/ pc[w] = "upstream"
    \/ /\ pc[w] = "loop"
       /\ retries[w] <= max_retries
       /\ cpc[w] = "idle"
       /\ ~(endpoint[w] = "list" /\ ConsultsCache(use_cache[w])
              /\ calls[w] = 0)

\* The handler is at its upstream call: after a miss, or straight away when
\* it does not consult the cache.
AtUpstream(w) ==
    \/ pc[w] = "upstream"
    \/ /\ pc[w] = "loop"
       /\ retries[w] <= max_retries
       /\ cpc[w] = "idle"
       /\ ~(endpoint[w] = "list" /\ ConsultsCache(use_cache[w]))

\* What the wrapper does with the exception e of the handler.
Handle(w, e) ==
    IF CaughtAsTransport(tool, e.kind)
    THEN Retry(w, e)
    ELSE IF e.kind = "HTTPException" /\ ~IsTerminalStatus(e.status)
    THEN Retry(w, e)
    ELSE /\ pc' = [pc EXCEPT ![w] = "raised"]
         /\ result' = [result EXCEPT ![w] = Raise(e)]
         /\ UNCHANGED <<retries, slept>>

\* Mutant of Fetch: a worker that missed takes the list another worker has
\* just fetched for the key instead of calling upstream.
FetchCoalesced(w) ==
    /\ endpoint[w] = "list"
    /\ AtUpstream(w)
    /\ IF \E v \in Workers \ {w} : pc[v] = "store"
       THEN /\ \E v \in Workers \ {w} :
                  /\ pc[v] = "store"
                  /\ result' = [result EXCEPT ![w] = Return(last[v].value)]
                  /\ Invoked(w, last[v])
            /\ pc' = [pc EXCEPT ![w] = "returned"]
            /\ UNCHANGED <<retries, slept, fetches>>
       ELSE /\ fetches' = [fetches EXCEPT ![w] = fetches[w] + 1]
            /\ \E u \in Responses(tool, calls[w] + 1) :
                  IF ReachesSetCached(u)
                  THEN /\ pc' = [pc EXCEPT ![w] = "store"]
                       /\ Invoked(w, u)
                       /\ UNCHANGED <<retries, slept, result>>
                  ELSE /\ Invoked(w, HandlerError(tool, u))
                       /\ Handle(w, HandlerError(tool, u))
    /\ UNCHANGED <<tool, max_retries, base_delay, earlier>>
    /\ UNCHANGED <<endpoint, use_cache>>
    /\ UNCHANGED <<cacheVars, keyVars>>

\* Mutant of Fetch: a request with use_cache = false returns the list it
\* fetched without storing it.
FetchStoringWhenCaching(w) ==
    /\ endpoint[w] = "list"
    /\ AtUpstream(w)
    /\ fetches' = [fetches EXCEPT ![w] = fetches[w] + 1]
    /\ \E u \in Responses(tool, calls[w] + 1) :
          IF ReachesSetCached(u)
          THEN IF use_cache[w]
               THEN /\ pc' = [pc EXCEPT ![w] = "store"]
                    /\ Invoked(w, u)
                    /\ UNCHANGED <<retries, slept, result>>
               ELSE /\ pc' = [pc EXCEPT ![w] = "returned"]
                    /\ result' = [result EXCEPT ![w] = Return(u.value)]
                    /\ Invoked(w, u)
                    /\ UNCHANGED <<retries, slept>>
          ELSE /\ Invoked(w, HandlerError(tool, u))
               /\ Handle(w, HandlerError(tool, u))
    /\ UNCHANGED <<tool, max_retries, base_delay, earlier>>
    /\ UNCHANGED <<endpoint, use_cache>>
    /\ UNCHANGED <<cacheVars, keyVars>>

\* The upstream call of the list handler and what follows it up to
\* set_cached, or up to the exception reaching the wrapper.
Fetch(w) ==
    /\ endpoint[w] = "list"
    /\ AtUpstream(w)
    /\ fetches' = [fetches EXCEPT ![w] = fetches[w] + 1]
    /\ \E u \in Responses(tool, calls[w] + 1) :
          IF ReachesSetCached(u)
          THEN /\ pc' = [pc EXCEPT ![w] = "store"]
               /\ Invoked(w, u)
               /\ UNCHANGED <<retries, slept, result>>
          ELSE /\ Invoked(w, HandlerError(tool, u))
               /\ Handle(w, HandlerError(tool, u))
    /\ UNCHANGED <<tool, max_retries, base_delay, earlier>>
    /\ UNCHANGED <<endpoint, use_cache>>
    /\ UNCHANGED <<cacheVars, keyVars>>

\* `set_cached(cache_key, ...)` with the list just fetched.
Store(w) ==
    /\ pc[w] = "store"
    /\ cpc[w] = "idle"
    /\ SetEnter(w, TrackedKey, last[w].value, CACHE_TTL)

\* set_cached has returned: the handler returns the list.
AfterStore(w) ==
    /\ pc[w] = "store"
    /\ cpc[w] = "done"
    /\ ret[w].op = "set"
    /\ ret[w].via # "raise"
    /\ cpc' = [cpc EXCEPT ![w] = "idle"]
    /\ pc' = [pc EXCEPT ![w] = "returned"]
    /\ result' = [result EXCEPT ![w] = Return(last[w].value)]
    /\ UNCHANGED <<tool, max_retries, base_delay, retries, calls, slept, last,
                   prior, earlier>>
    /\ UNCHANGED <<CACHE_TYPE, now, _memory_cache, _cache_lock, _redis_client,
                   redis_up, redis_data, frame, ret, sets, last_set, clean>>
    /\ UNCHANGED <<keyVars, handlerVars>>

\* Mutant of Write: the handler empties both stores after a successful
\* write.
WritePurging(w) ==
    /\ endpoint[w] = "write"
    /\ AtUpstream(w)
    /\ fetches' = [fetches EXCEPT ![w] = fetches[w] + 1]
    /\ \E u \in Responses(tool, calls[w] + 1) :
          IF u.kind = "ok"
          THEN /\ pc' = [pc EXCEPT ![w] = "returned"]
               /\ result' = [result EXCEPT ![w] = Return(u.value)]
               /\ Invoked(w, u)
               /\ _memory_cache' = <<>>
               /\ redis_data' = <<>>
               /\ UNCHANGED <<retries, slept>>
          ELSE /\ Invoked(w, HandlerError(tool, u))
               /\ Handle(w, HandlerError(tool, u))
               /\ UNCHANGED <<_memory_cache, redis_data>>
    /\ UNCHANGED <<tool, max_retries, base_delay, earlier>>
    /\ UNCHANGED <<endpoint, use_cache>>
    /\ UNCHANGED <<CACHE_TYPE, now, _cache_lock, _redis_client, redis_up, cpc,
                   frame, ret, sets, last_set, clean>>
    /\ UNCHANGED keyVars

\* A write handler (create_task, update_task, ..., create_event, ...): the
\* upstream call and the return of its result, or the exception reaching the
\* wrapper.  No cache function is called.
Write(w) ==
    /\ endpoint[w] = "write"
    /\ AtUpstream(w)
    /\ fetches' = [fetches EXCEPT ![w] = fetches[w] + 1]
    /\ \E u \in Responses(tool, calls[w] + 1) :
          IF u.kind = "ok"
          THEN /\ pc' = [pc EXCEPT ![w] = "returned"]
               /\ result' = [result EXCEPT ![w] = Return(u.value)]
               /\ Invoked(w, u)
               /\ UNCHANGED <<retries, slept>>
          ELSE /\ Invoked(w, HandlerError(tool, u))
               /\ Handle(w, HandlerError(tool, u))
    /\ UNCHANGED <<tool, max_retries, base_delay, earlier>>
    /\ UNCHANGED <<endpoint, use_cache>>
    /\ UNCHANGED <<cacheVars, keyVars>>

-----------------------------------------------------------------------------
(* Specifications *)

RetryIdle ==
    /\ pc = [w \in Workers |-> "idle"]
    /\ retries = [w \in Workers |-> 0]
    /\ calls = [w \in Workers |-> 0]
    /\ slept = [w \in Workers |-> <<>>]
    /\ last = [w \in Workers |-> NoOutcome]
    /\ prior = [w \in Workers |-> {}]
    /\ result = [w \in Workers |-> NoResult]
    /\ earlier = FALSE

CacheIdle ==
    /\ now = 0
    /\ _memory_cache = <<>>
    /\ _cache_lock = Free
    /\ _redis_client = "None"
    /\ redis_data = <<>>
    /\ cpc = [w \in Workers |-> "idle"]
    /\ frame = [w \in Workers |-> NoFrame]
    /\ ret = [w \in Workers |-> NoReturn]
    /\ sets = 0
    /\ last_set = NoSet
    /\ clean = [w \in Workers |-> FALSE]

KeyIdle ==
    /\ request = [i \in RequestIds |-> NoRequest]
    /\ cache_key = [i \in RequestIds |-> NoKey]
    /\ entries = {}

HandlerIdle ==
    /\ endpoint = [w \in Workers |-> "list"]
    /\ use_cache = [w \in Workers |-> TRUE]
    /\ fetches = [w \in Workers |-> 0]

\* One decorated function of either server, any policy within the bounds;
\* the cache is not used.
RetryInit ==
    /\ tool \in Tools
    /\ max_retries \in 0..MaxRetries
    /\ base_delay \in 1..MaxBaseDelay
    /\ RetryIdle
    /\ KeyIdle
    /\ CACHE_TYPE = "memory"
    /\ redis_up = FALSE
    /\ CacheIdle
    /\ HandlerIdle

RetryNext ==
    \E w \in Workers : Call(w) \/ Attempt(w) \/ WakeUp(w)

RetrySpec == RetryInit /\ [][RetryNext]_vars

\* One worker executes the wrapped operation, again and again.  Each
\* invocation returns or raises and each time.sleep returns, so a step that
\* stays possible is eventually taken.
ExecuteNext ==
    Call("w1") \/ Attempt("w1") \/ WakeUp("w1")

ExecuteSpec ==
    /\ RetryInit
    /\ [][ExecuteNext]_vars
    /\ WF_vars(Attempt("w1"))
    /\ WF_vars(WakeUp("w1"))

\* Either cache mode, the Redis server reachable or not; no wrapped
\* operation runs.
CacheInit ==
    /\ CACHE_TYPE \in {"memory", "redis"}
    /\ redis_up \in (IF CACHE_TYPE = "redis" THEN BOOLEAN ELSE {FALSE})
    /\ CacheIdle
    /\ HandlerIdle
    /\ tool = "todoist"
    /\ max_retries = 0
    /\ base_delay = 1
    /\ RetryIdle
    /\ KeyIdle

CacheNext ==
    \/ \E w \in CacheCallers, k \in Keys : GetEnter(w, k)
    \/ \E w \in CacheCallers, k \in Keys :
           \E a \in SetChoices(k) : SetEnter(w, k, a[1], a[2])
    \/ \E w \in CacheCallers : StatsEnter(w)
    \/ \E w \in CacheCallers :
           Acquire(w) \/ GetBody(w) \/ SetBody(w) \/ StatsBody(w)
    \/ Tick
    \/ RedisFlips

CacheSpec == CacheInit /\ [][CacheNext]_vars

\* The same calls in memory mode and in redis mode with a Redis server that
\* never answers.
FailoverInit ==
    /\ CACHE_TYPE \in {"memory", "redis"}
    /\ redis_up = FALSE
    /\ CacheIdle
    /\ HandlerIdle
    /\ tool = "todoist"
    /\ max_retries = 0
    /\ base_delay = 1
    /\ RetryIdle
    /\ KeyIdle

FailoverNext ==
    \/ \E w \in CacheCallers, k \in Keys : GetEnter(w, k)
    \/ \E w \in CacheCallers, k \in Keys :
           \E a \in SetChoices(k) : SetEnter(w, k, a[1], a[2])
    \/ \E w \in CacheCallers : Acquire(w) \/ GetBody(w) \/ SetBody(w)
    \/ Tick

FailoverSpec == FailoverInit /\ [][FailoverNext]_vars

\* One worker serves requests of every kind, one after the other, in either
\* server and either cache mode, while the clock advances and the Redis
\* server comes and goes.
HandlerInit ==
    /\ tool \in Tools
    /\ max_retries = HANDLER_MAX_RETRIES
    /\ base_delay = HANDLER_BASE_DELAY
    /\ RetryIdle
    /\ KeyIdle
    /\ CACHE_TYPE \in {"memory", "redis"}
    /\ redis_up \in (IF CACHE_TYPE = "redis" THEN BOOLEAN ELSE {FALSE})
    /\ CacheIdle
    /\ HandlerIdle

HandlerNext ==
    \/ \E w \in CacheCallers : \E k \in RequestKinds : Request(w, k[1], k[2])
    \/ \E w \in CacheCallers :
           \/ Lookup(w) \/ AfterLookup(w)
           \/ Fetch(w) \/ Store(w) \/ AfterStore(w)
           \/ Write(w)
           \/ WakeUp(w)
           \/ Acquire(w) \/ GetBody(w) \/ SetBody(w)
    \/ Tick
    \/ RedisFlips

HandlerSpec == HandlerInit /\ [][HandlerNext]_vars

\* Two workers serve list requests with use_cache = true for the same key,
\* in the Todoist server in memory mode, in any interleaving, within the
\* ttl of whatever they store.
MissInit ==
    /\ tool = "todoist"
    /\ max_retries = HANDLER_MAX_RETRIES
    /\ base_delay = HANDLER_BASE_DELAY
    /\ RetryIdle
    /\ KeyIdle
    /\ CACHE_TYPE = "memory"
    /\ redis_up = FALSE
    /\ CacheIdle
    /\ HandlerIdle

MissNext ==
    \/ \E w \in Workers : Request(w, "list", TRUE)
    \/ \E w \in Workers :
           \/ Lookup(w) \/ AfterLookup(w)
           \/ Fetch(w) \/ Store(w) \/ AfterStore(w)
           \/ WakeUp(w)
           \/ Acquire(w) \/ GetBody(w) \/ SetBody(w)

MissSpec == MissInit /\ [][MissNext]_vars

\* Two workers serve list requests with use_cache = true for the same key,
\* in the Todoist server in either mode, with a Redis server that answers
\* throughout or not at all.
LockInit ==
    /\ tool = "todoist"
    /\ max_retries = HANDLER_MAX_RETRIES
    /\ base_delay = HANDLER_BASE_DELAY
    /\ RetryIdle
    /\ KeyIdle
    /\ CACHE_TYPE \in {"memory", "redis"}
    /\ redis_up \in (IF CACHE_TYPE = "redis" THEN BOOLEAN ELSE {FALSE})
    /\ CacheIdle
    /\ HandlerIdle

LockNext ==
    \/ \E w \in Workers : Request(w, "list", TRUE)
    \/ \E w \in Workers :
           \/ Lookup(w) \/ AfterLookup(w)
           \/ Fetch(w) \/ Store(w) \/ AfterStore(w)
           \/ WakeUp(w)
           \/ Acquire(w) \/ GetBody(w) \/ SetBody(w)

LockSpec == LockInit /\ [][LockNext]_vars

\* Two requests of any prefix and keyword arguments; neither the retrier
\* nor the stores run.
KeyInit ==
    /\ request \in [RequestIds -> Requests]
    /\ cache_key = [i \in RequestIds |-> NoKey]
    /\ entries = {}
    /\ tool = "todoist"
    /\ max_retries = 0
    /\ base_delay = 1
    /\ RetryIdle
    /\ CACHE_TYPE = "memory"
    /\ redis_up = FALSE
    /\ CacheIdle
    /\ HandlerIdle

KeyNext ==
    \E i \in RequestIds : KeyCall(i) \/ KeyStore(i)

KeySpec == KeyInit /\ [][KeyNext]_vars

\* Two workers call set_cached, get_cached and get_cache_stats on one key,
\* in memory mode, in any interleaving; every call reaches the memory cache.
RaceInit ==
    /\ CACHE_TYPE = "memory"
    /\ redis_up = FALSE
    /\ CacheIdle
    /\ HandlerIdle
    /\ tool = "todoist"
    /\ max_retries = 0
    /\ base_delay = 1
    /\ RetryIdle
    /\ KeyIdle

RaceNext ==
    \/ \E w \in Workers : GetEnter(w, TrackedKey)
    \/ \E w \in Workers :
           \E a \in SetChoices(TrackedKey) : SetEnter(w, TrackedKey, a[1], a[2])
    \/ \E w \in Workers : StatsEnter(w)
    \/ \E w \in Workers :
           Acquire(w) \/ GetBody(w) \/ SetBody(w) \/ StatsBody(w)
    \/ Tick

RaceSpec == RaceInit /\ [][RaceNext]_vars

-----------------------------------------------------------------------------
(* Properties of retry_on_failure, checked under RetrySpec *)

Done(w) == pc[w] \in {"returned", "raised"}

\* Every invocation of the current execution has failed with class cls.
AllFailed(w, cls) ==
    /\ last[w] # NoOutcome
    /\ ClassOf(last[w]) = cls
    /\ prior[w] \subseteq {cls}

\* What a retried failure must lead to: a sleep while budget remains, and
\* after invocation max_retries + 1 the raise of that very failure.
RetriedLikeServerError(w) ==
    /\ calls[w] <= max_retries + 1
    /\ pc[w] # "returned"
    /\ (pc[w] = "raised") <=> (calls[w] = max_retries + 1)
    /\ pc[w] = "raised" =>
          /\ result[w].type = "raise"
          /\ result[w].err = last[w]
          /\ last[w].at = calls[w]

\* C1: an operation that fails with a 5xx HTTPException on every invocation
\* is invoked exactly max_retries + 1 times; only then does wrapper raise,
\* and what it raises is the error of the last invocation.
C1_AlwaysFailing5xx ==
    \A w \in Workers : AllFailed(w, "5xx") => RetriedLikeServerError(w)

C1_Witness ==
    \E w \in Workers :
        /\ max_retries = 3
        /\ AllFailed(w, "5xx")
        /\ pc[w] = "raised"
        /\ calls[w] = 4
        /\ result[w].err.at = 4

\* C2: when the first invocation raises an HTTPException with status below
\* 500, that invocation is the only one, nothing is slept, and wrapper
\* raises that same error.
C2_TerminalFirstAttempt ==
    \A w \in Workers :
        (last[w].kind = "HTTPException" /\ last[w].status < 500 /\ last[w].at = 1)
        => /\ pc[w] = "raised"
           /\ calls[w] = 1
           /\ slept[w] = <<>>
           /\ result[w].type = "raise"
           /\ result[w].err = last[w]

C2_Witness ==
    \E w, v \in Workers :
        /\ pc[w] = "raised" /\ last[w].at = 1 /\ last[w].status = 499
        /\ pc[v] = "raised" /\ last[v].at = 1 /\ last[v].status = 302

\* C3: k retryable failures followed by a success give k + 1 invocations,
\* k sleeps adding up to base_delay * (2^k - 1), and the success value as the
\* result; with k = 0 nothing is slept.
C3_SuccessAfterFailures ==
    \A w \in Workers :
        last[w].kind = "ok" =>
            LET k == last[w].at - 1 IN
            /\ k <= max_retries
            /\ prior[w] \subseteq {"5xx", "requests", "dav"}
            /\ pc[w] = "returned"
            /\ calls[w] = k + 1
            /\ Len(slept[w]) = k
            /\ Sum(slept[w]) = base_delay * (2 ^ k - 1)
            /\ result[w] = [type |-> "return", value |-> last[w].value,
                            err |-> NoOutcome]

C3_Witness ==
    \E w, v \in Workers :
        /\ max_retries = 3
        /\ pc[w] = "returned" /\ last[w].at = 3 /\ prior[w] = {"5xx"}
        /\ Sum(slept[w]) = 3 * base_delay
        /\ pc[v] = "returned" /\ last[v].at = 4 /\ Sum(slept[v]) = 7 * base_delay

\* C4: an execution ends with the success value of its last invocation or
\* with the failure of its last invocation, unchanged; it never ends with
\* an earlier failure, another error or a substitute value.
C4_FinalOutcome ==
    \A w \in Workers :
        IF Done(w)
        THEN /\ last[w].at = calls[w]
             /\ \/ /\ last[w].kind = "ok"
                   /\ result[w] = [type |-> "return", value |-> last[w].value,
                                   err |-> NoOutcome]
                \/ /\ last[w].kind # "ok"
                   /\ result[w] = [type |-> "raise", value |-> "",
                                   err |-> last[w]]
        ELSE result[w] = NoResult

C4_Witness ==
    \E w, v \in Workers :
        /\ pc[w] = "raised" /\ calls[w] = 3 /\ prior[w] = {"5xx", "requests"}
        /\ result[w].err.kind = "ValueError"
        /\ pc[v] = "returned" /\ calls[v] = 2 /\ result[v].value = "success"

\* C5: a RequestException (Timeout, ConnectionError), and in the CalDAV
\* server a DAVError, is retried exactly like a 5xx error: max_retries + 1
\* invocations when it happens every time, then that failure is raised; two
\* such failures followed by a success under max_retries = 2 return the
\* success value after three invocations.
C5_TransportRetried ==
    \A w \in Workers :
        /\ (AllFailed(w, "requests") \/ AllFailed(w, "dav"))
              => RetriedLikeServerError(w)
        /\ (/\ max_retries = 2
            /\ ClassOf(last[w]) \in {"requests", "dav"}
            /\ last[w].at = 2
            /\ prior[w] \subseteq {"requests", "dav"})
              => pc[w] \in {"sleep", "loop"} /\ Len(slept[w]) = 2
        /\ (/\ max_retries = 2
            /\ last[w].kind = "ok"
            /\ last[w].at = 3
            /\ prior[w] \subseteq {"requests", "dav"})
              => /\ pc[w] = "returned"
                 /\ calls[w] = 3
                 /\ result[w].type = "return"
                 /\ result[w].value = last[w].value

C5_Witness ==
    \E w, v \in Workers :
        /\ tool = "caldav" /\ max_retries = 2
        /\ AllFailed(w, "dav") /\ pc[w] = "raised" /\ calls[w] = 3
        /\ pc[v] = "returned" /\ calls[v] = 3 /\ prior[v] = {"requests"}
        /\ result[v].value = "success"

\* C6: the n-th sleep of an execution lasts base_delay * 2^(n-1); a sleep
\* happens only between a retried failure and the next invocation, so an
\* execution that has ended slept once less than it invoked.
C6_BackoffSchedule ==
    \A w \in Workers :
        /\ \A n \in 1..Len(slept[w]) : slept[w][n] = base_delay * (2 ^ (n - 1))
        /\ Len(slept[w]) <= max_retries
        /\ pc[w] \in {"loop", "sleep"} => Len(slept[w]) = calls[w]
        /\ pc[w] = "sleep" => ClassOf(last[w]) \in {"5xx", "requests", "dav"}
        /\ Done(w) => Len(slept[w]) = calls[w] - 1

C6_Witness ==
    \E w \in Workers :
        /\ base_delay = 2
        /\ slept[w] = <<2, 4, 8>>
        /\ pc[w] = "raised"

\* C7: an HTTPException with status below 500 ends the execution on the
\* attempt where it occurs, whatever was retried before and whatever budget
\* remains: it is raised as it is, with no further invocation or sleep.
C7_TerminalAnyAttempt ==
    \A w \in Workers :
        (last[w].kind = "HTTPException" /\ last[w].status < 500)
        => /\ pc[w] = "raised"
           /\ result[w] = [type |-> "raise", value |-> "", err |-> last[w]]
           /\ calls[w] = last[w].at
           /\ Len(slept[w]) = calls[w] - 1

C7_Witness ==
    \E w \in Workers :
        /\ max_retries = 3
        /\ calls[w] = 2
        /\ last[w].kind = "HTTPException" /\ last[w].status = 499
        /\ pc[w] = "raised"

\* Retryable failures the current execution has met so far.
FailuresSoFar(w) ==
    IF last[w] = NoOutcome THEN 0
    ELSE (calls[w] - 1)
         + (IF ClassOf(last[w]) \in {"5xx", "requests", "dav"} THEN 1 ELSE 0)

\* C8: the attempt counter belongs to one execution: it counts the
\* retryable failures of that execution only, starting from 0, whatever
\* earlier or concurrent executions have consumed; so an execution gives up
\* only after max_retries + 1 failures of its own.
C8_FreshCounter ==
    \A w \in Workers :
        /\ pc[w] # "idle" => retries[w] = FailuresSoFar(w)
        /\ (pc[w] = "raised" /\ ClassOf(last[w]) \in {"5xx", "requests", "dav"})
              => calls[w] = max_retries + 1

C8_Witness ==
    \E w, v \in Workers :
        /\ w # v
        /\ earlier
        /\ pc[w] = "raised" /\ calls[w] = max_retries + 1 /\ max_retries = 3
        /\ pc[v] = "sleep" /\ retries[v] = 2

\* C9: the sleeps of one execution add up to at most
\* base_delay * (2^max_retries - 1), and to exactly that when every
\* invocation failed retryably.
C9_TotalSleep ==
    \A w \in Workers :
        /\ Sum(slept[w]) <= base_delay * (2 ^ max_retries - 1)
        /\ (pc[w] = "raised" /\ ClassOf(last[w]) \in {"5xx", "requests", "dav"})
              => Sum(slept[w]) = base_delay * (2 ^ max_retries - 1)

C9_Witness ==
    \E w \in Workers :
        /\ max_retries = 3 /\ base_delay = 1
        /\ pc[w] = "raised" /\ calls[w] = 4
        /\ Sum(slept[w]) = 7

\* C35: an exception of func that neither except clause names (a
\* ValueError) leaves wrapper on the invocation that raised it: the
\* execution has ended with that very exception, and no retry was counted
\* and no sleep made for it, whatever budget remains.
C35_UnclassifiedPropagates ==
    \A w \in Workers :
        last[w].kind = "ValueError"
        => /\ pc[w] = "raised"
           /\ result[w].type = "raise"
           /\ result[w].err = last[w]
           /\ last[w].at = calls[w]
           /\ retries[w] = calls[w] - 1
           /\ Len(slept[w]) = calls[w] - 1

\* With three retries allowed, the second invocation raised a ValueError,
\* after one retried failure and one sleep; two retries were left.
C35_Witness ==
    /\ max_retries = 3
    /\ last["w1"].kind = "ValueError"
    /\ pc["w1"] = "raised"
    /\ calls["w1"] = 2
    /\ retries["w1"] = 1
    /\ Len(slept["w1"]) = 1

-----------------------------------------------------------------------------
(* Termination of retry_on_failure, checked under ExecuteSpec *)

\* C29: whatever the outcomes of the invocations, an execution with
\* max_retries = N invokes the operation at most N + 1 times, has invoked it
\* at least once when it ends, and does end, by returning or by raising.
C29_ExecuteTerminates ==
    /\ [](/\ calls["w1"] <= max_retries + 1
          /\ Done("w1") => calls["w1"] >= 1)
    /\ (pc["w1"] = "loop") ~> Done("w1")

\* An execution with max_retries = 2 has ended by raising after three
\* invocations, of which some failed in transport and some with a 5xx.
C29_Witness ==
    /\ max_retries = 2
    /\ pc["w1"] = "raised"
    /\ calls["w1"] = 3
    /\ {"5xx", "requests"} \subseteq (prior["w1"] \cup {ClassOf(last["w1"])})

-----------------------------------------------------------------------------
(* Properties of the cache, checked under CacheSpec *)

\* A get_cached of TrackedKey has returned to w; it began after the latest
\* set_cached of that key had returned, no other set_cached of the key has
\* been called since, and the ttl of that set has not yet elapsed.
GetFollowsSet(w) ==
    /\ cpc[w] = "done"
    /\ ret[w].op = "get"
    /\ ret[w].key = TrackedKey
    /\ clean[w]
    /\ last_set # NoSet
    /\ now < last_set.deadline

\* json.loads(json.dumps(v)) == v
JsonNative(v) == v \in {"listA", "listB"}

\* C10 as stated: set_cached(k, v, ttl) with ttl > 0 followed by
\* get_cached(k) before ttl has elapsed, no other set of k in between,
\* returns v, in either mode and whatever the Redis server does at the two
\* calls (v a JSON-compatible value, as cache entries are).
C10_SetThenGet_AnyAvailability ==
    \A w \in Workers :
        (GetFollowsSet(w) /\ JsonNative(last_set.value))
        => ret[w].value = last_set.value

\* C10 as amended: the same, provided one store serves both calls (always so
\* in memory mode; in redis mode Redis takes the write and answers the
\* lookup, or the memory cache does both), and provided v is a value JSON
\* reproduces when Redis is that store.
C10_SetThenGet_SameStore ==
    \A w \in Workers :
        (/\ GetFollowsSet(w)
         /\ ret[w].via = last_set.store
         /\ last_set.store = "redis" => JsonNative(last_set.value))
        => ret[w].value = last_set.value

C10_Witness ==
    \E w \in Workers :
        /\ GetFollowsSet(w)
        /\ CACHE_TYPE = "redis"
        /\ ret[w].via = "redis"
        /\ last_set.store = "redis"
        /\ last_set.value = "listB"
        /\ ret[w].value = "listB"
        /\ now = last_set.deadline - 1
        /\ now > 0

\* C11: get_cached never returns an entry of the memory cache whose expiry
\* is <= now: a lookup that reaches the memory cache returns a value only
\* when the key is stored with now < expiry, and then that value; so once
\* the ttl of the latest write has elapsed, now = expiry included, the
\* lookup returns None.
C11_ExpiredInvisible ==
    [][\A w \in Workers :
          (cpc[w] = "get_locked" /\ cpc'[w] = "done")
          => LET k == frame[w].key IN
             /\ ret'[w].value # None
                  => /\ k \in DOMAIN _memory_cache
                     /\ now < _memory_cache[k][2]
                     /\ ret'[w].value = _memory_cache[k][1]
             /\ (/\ k = TrackedKey
                 /\ clean[w]
                 /\ last_set.store = "memory"
                 /\ now >= last_set.deadline)
                  => ret'[w].value = None]_vars

\* The entry was written with a positive ttl, and the lookup ran at the
\* instant of its expiry (a lookup before it sees the entry and leaves it).
C11_Witness ==
    \E w \in Workers :
        /\ cpc[w] = "done"
        /\ ret[w] = [op |-> "get", key |-> TrackedKey, value |-> None,
                     via |-> "memory", count |-> 0]
        /\ clean[w]
        /\ last_set.store = "memory"
        /\ last_set.lasting
        /\ now = last_set.deadline
        /\ TrackedKey \notin DOMAIN _memory_cache

\* A get_cached of TrackedKey has returned to w; it began after the latest
\* set_cached of that key had returned, no other set_cached of the key has
\* been called since, and that set was given a ttl <= 0.
GetFollowsExpiredSet(w) ==
    /\ cpc[w] = "done"
    /\ ret[w].op = "get"
    /\ ret[w].key = TrackedKey
    /\ clean[w]
    /\ last_set # NoSet
    /\ ~last_set.lasting

\* C12: after set_cached(k, v, ttl) with ttl <= 0 every get_cached(k)
\* returns None, in memory mode and in redis mode.
C12_NonPositiveTtlAbsent ==
    \A w \in Workers : GetFollowsExpiredSet(w) => ret[w].value = None

\* No set_cached of TrackedKey has been called so far.
NeverSet == last_set = NoSet /\ ~SetInFlight

\* C13: get_cached of a key that was never set returns None and does not
\* raise, whatever the other keys of the two stores hold and whatever the
\* Redis server does.
C13_MissOfUnsetKey ==
    \A w \in Workers :
        (/\ cpc[w] = "done"
         /\ ret[w].op = "get"
         /\ ret[w].key = TrackedKey
         /\ NeverSet)
        => (ret[w].via \in {"redis", "memory"} /\ ret[w].value = None)

\* The miss is answered by Redis while Redis holds another key.
C13_Witness ==
    \E w \in Workers :
        /\ cpc[w] = "done"
        /\ ret[w].op = "get"
        /\ ret[w].key = TrackedKey
        /\ NeverSet
        /\ ret[w].via = "redis"
        /\ ret[w].value = None
        /\ DOMAIN redis_data # {}

\* The step is the call of get_cached by w: it ends in the Redis branch or
\* at the lock of the memory branch.
GetCalled(w) ==
    /\ cpc[w] \in {"idle", "done"}
    /\ now' = now
    /\ redis_up' = redis_up
    /\ \/ cpc'[w] = "get_lock" /\ frame'[w].op = "get"
       \/ cpc'[w] = "done" /\ ret'[w].op = "get"

\* C14: in redis mode get_cached asks Redis first, and an answer of Redis
\* is the result; when the lookup raises (the server does not answer), the
\* error is not propagated: the call goes on to the memory cache and
\* returns from it the stored value if now < expiry, otherwise None.
C14_LookupFailureFallsThrough ==
    [][\A w \in Workers :
          /\ (GetCalled(w) /\ CACHE_TYPE = "redis" /\ redis_up)
                => (cpc'[w] = "done" /\ ret'[w].via = "redis")
          /\ (GetCalled(w) /\ CACHE_TYPE = "redis" /\ ~redis_up)
                => (cpc'[w] = "get_lock" /\ frame'[w].op = "get")
          /\ (cpc[w] = "get_locked" /\ cpc'[w] = "done")
                => LET k == frame[w].key IN
                   ret'[w] = [op |-> "get", key |-> k, via |-> "memory",
                              count |-> 0,
                              value |-> IF /\ k \in DOMAIN _memory_cache
                                           /\ now < _memory_cache[k][2]
                                        THEN _memory_cache[k][1]
                                        ELSE None]]_vars

\* Redis was connected, then its lookup failed, and the memory cache
\* answered with a value it held.
C14_Witness ==
    \E w \in Workers :
        /\ CACHE_TYPE = "redis"
        /\ _redis_client = "client"
        /\ cpc[w] = "done"
        /\ ret[w].op = "get"
        /\ ret[w].via = "memory"
        /\ ret[w].value = "listA"

\* C32: in redis mode, when Redis answers the lookup and does not hold the
\* key, get_cached returns None from the Redis branch: it does not take the
\* lock and does not read the memory cache, whatever that holds under the
\* key.  A call goes on to the memory cache only in memory mode or when
\* Redis did not answer.
C32_RedisMissIsFinal ==
    [][\A w \in Workers :
         GetCalled(w)
         => LET k == IF cpc'[w] = "done" THEN ret'[w].key ELSE frame'[w].key
            IN /\ (CACHE_TYPE = "redis" /\ redis_up /\ k \notin DOMAIN redis_data)
                    => /\ cpc'[w] = "done"
                       /\ ret'[w] = [op |-> "get", key |-> k, value |-> None,
                                     via |-> "redis", count |-> 0]
                       /\ _memory_cache' = _memory_cache
                       /\ _cache_lock' = _cache_lock
               /\ cpc'[w] = "get_lock"
                    => (CACHE_TYPE = "memory" \/ ~redis_up)]_vars

\* The key was written to the memory cache while Redis was down; Redis is
\* back, the entry has not expired, and the lookup returned None from Redis.
C32_Witness ==
    /\ CACHE_TYPE = "redis"
    /\ redis_up
    /\ last_set.store = "memory"
    /\ now < last_set.deadline
    /\ TrackedKey \in DOMAIN _memory_cache
    /\ _memory_cache[TrackedKey] = <<last_set.value, last_set.deadline>>
    /\ cpc["w1"] = "done"
    /\ clean["w1"]
    /\ ret["w1"] = [op |-> "get", key |-> TrackedKey, value |-> None,
                    via |-> "redis", count |-> 0]

\* The step is the call of set_cached by w.
SetCalled(w) ==
    /\ cpc[w] \in {"idle", "done"}
    /\ sets' = sets + 1
    /\ \/ cpc'[w] = "set_lock" /\ frame'[w].op = "set"
       \/ cpc'[w] = "done" /\ ret'[w].op = "set"

\* C15: in redis mode set_cached writes to Redis, and when Redis takes the
\* write the memory cache is left as it was; when the write raises (the
\* server does not answer) the call goes on to the memory cache and stores
\* <<value, time of the write + ttl>> under the key, leaving the other
\* entries and Redis as they were; no error reaches the caller.
C15_WriteFailureFallsThrough ==
    [][\A w \in Workers :
          /\ (SetCalled(w) /\ CACHE_TYPE = "redis" /\ cpc'[w] = "done")
                => /\ ret'[w].via = "redis"
                   /\ redis_up
                   /\ ret'[w].key \in DOMAIN redis_data'
                   /\ _memory_cache' = _memory_cache
          /\ (SetCalled(w) /\ CACHE_TYPE = "redis" /\ ~redis_up)
                => (cpc'[w] = "set_lock" /\ redis_data' = redis_data)
          /\ (cpc[w] = "set_locked" /\ cpc'[w] = "done")
                => LET k == frame[w].key IN
                   /\ ret'[w] = [op |-> "set", key |-> k, value |-> None,
                                 via |-> "memory", count |-> 0]
                   /\ DOMAIN _memory_cache' = DOMAIN _memory_cache \cup {k}
                   /\ _memory_cache'[k] =
                          <<frame[w].value, now + frame[w].ttl>>
                   /\ \A x \in DOMAIN _memory_cache \ {k} :
                          _memory_cache'[x] = _memory_cache[x]
                   /\ redis_data' = redis_data]_vars

\* Redis was connected, then refused a write of positive ttl by not
\* answering; the entry is in the memory cache with the expiry of that
\* write.
C15_Witness ==
    \E w \in Workers :
        /\ CACHE_TYPE = "redis"
        /\ _redis_client = "client"
        /\ cpc[w] = "done"
        /\ ret[w] = [op |-> "set", key |-> TrackedKey, value |-> None,
                     via |-> "memory", count |-> 0]
        /\ last_set.store = "memory"
        /\ last_set.lasting
        /\ now > 0
        /\ last_set.deadline > now
        /\ TrackedKey \in DOMAIN _memory_cache
        /\ _memory_cache[TrackedKey][2] = last_set.deadline

\* C16: every get_cached, set_cached and get_cache_stats call returns to
\* its caller from Redis or from the memory cache and none raises, whether
\* the server never answers, stops answering after the connection was made,
\* or comes and goes between calls.
C16_NoCacheCallRaises ==
    \A w \in Workers :
        cpc[w] = "done"
        => /\ ret[w].op \in {"get", "set", "stats"}
           /\ ret[w].via \in {"redis", "memory"}

\* get_cache_stats answered from the memory cache, which holds an entry,
\* while the connected Redis server does not answer.
C16_Witness ==
    \E w \in Workers :
        /\ CACHE_TYPE = "redis"
        /\ _redis_client = "client"
        /\ ~redis_up
        /\ cpc[w] = "done"
        /\ ret[w].op = "stats"
        /\ ret[w].via = "memory"
        /\ ret[w].count = 1

\* C18 as stated: in redis mode a failed Redis operation makes get_cached
\* return None and makes set_cached a no-op: a lookup that Redis did not
\* answer returns None, and a write that Redis did not take leaves no
\* entry a later lookup could return.
C18_FailureIsMissAndNoOp ==
    CACHE_TYPE = "redis"
    => \A w \in Workers :
          /\ (cpc[w] = "done" /\ ret[w].op = "get" /\ ret[w].via = "memory")
               => ret[w].value = None
          /\ (cpc[w] = "done" /\ ret[w].op = "set" /\ ret[w].via = "memory")
               => ~(/\ ret[w].key \in DOMAIN _memory_cache
                    /\ now < _memory_cache[ret[w].key][2])

\* C18 as amended: in redis mode a failed Redis operation never reaches
\* the caller as an error, and the memory cache takes over: a failed write
\* leaves the entry in the memory cache, a failed lookup returns None
\* exactly when the memory cache holds no unexpired entry of the key, and
\* a failed lookup that follows a failed write of the key within its ttl
\* returns the value written.
C18_FailureDegradesToMemory ==
    CACHE_TYPE = "redis"
    => \A w \in Workers :
          /\ (cpc[w] = "done" /\ ret[w].op = "set" /\ ret[w].via = "memory"
                 /\ ret[w].key = TrackedKey)
               => /\ TrackedKey \in DOMAIN _memory_cache
                  /\ _memory_cache[TrackedKey] =
                        <<last_set.value, last_set.deadline>>
          /\ (cpc[w] = "done" /\ ret[w].op = "get" /\ ret[w].via = "memory")
               => (ret[w].value = None
                     <=> ret[w].key \notin DOMAIN _memory_cache)
          /\ (GetFollowsSet(w) /\ ret[w].via = "memory"
                 /\ last_set.store = "memory")
               => ret[w].value = last_set.value

\* Redis was connected and answered neither the write nor the lookup that
\* followed; the lookup returned the value written.
C18_Witness ==
    \E w \in Workers :
        /\ CACHE_TYPE = "redis"
        /\ _redis_client = "client"
        /\ GetFollowsSet(w)
        /\ last_set.store = "memory"
        /\ last_set.lasting
        /\ ret[w].via = "memory"
        /\ ret[w].value = "listB"
        /\ redis_data = <<>>

\* A step of get_cache_stats taken by worker w: its call, its wait for the
\* lock, its block or its return.
StatsStep(w) ==
    /\ cpc'[w] # cpc[w] \/ ret'[w] # ret[w]
    /\ \/ cpc'[w] = "stats_lock"
       \/ cpc[w] \in {"stats_lock", "stats_locked"}
       \/ cpc'[w] = "done" /\ ret'[w].op = "stats"

\* C28: no step of get_cache_stats changes the memory cache or the shared
\* store, so no entry is altered or evicted by it; it never raises; while
\* Redis does not answer it does not report from Redis, and what it reports
\* from the memory branch is the number of entries of the memory cache.
C28_StatsChangeNothing ==
    [][\A w \in Workers :
         StatsStep(w)
         => /\ _memory_cache' = _memory_cache
            /\ redis_data' = redis_data
            /\ cpc'[w] = "done"
                 => /\ ret'[w].via \in {"redis", "memory"}
                    /\ ~redis_up => ret'[w].via = "memory"
                    /\ ret'[w].via = "memory"
                         => ret'[w].count = Cardinality(DOMAIN _memory_cache)]_vars

\* In redis mode with Redis down, get_cache_stats has answered from the
\* memory branch: it counted one entry, which has expired and is still
\* there.
C28_Witness ==
    /\ CACHE_TYPE = "redis"
    /\ ~redis_up
    /\ cpc["w1"] = "done"
    /\ ret["w1"].op = "stats"
    /\ ret["w1"].via = "memory"
    /\ ret["w1"].count = 1
    /\ TrackedKey \in DOMAIN _memory_cache
    /\ _memory_cache[TrackedKey][2] <= now

\* The step is the return of a get_cached call of w, from either branch.
GetReturns(w) ==
    /\ cpc'[w] = "done"
    /\ ret'[w].op = "get"
    /\ cpc[w] = "get_locked" \/ GetCalled(w)

\* The entry of key k has expired and is still in the memory cache.
ExpiredInMemory(k) ==
    k \in DOMAIN _memory_cache /\ _memory_cache[k][2] <= now

\* A key leaves the memory cache only through the lookup of that key, by
\* the worker inside the block of get_cached, when its expiry has passed;
\* that lookup returns None and leaves the other entries alone; and
\* get_cache_stats counts every entry of the map, expired or not.
OnlyLazyRemoval ==
    /\ \A k \in DOMAIN _memory_cache \ DOMAIN _memory_cache' :
          \E w \in Workers :
             /\ cpc[w] = "get_locked"
             /\ frame[w].key = k
             /\ ExpiredInMemory(k)
             /\ cpc'[w] = "done"
             /\ ret'[w].value = None
             /\ \A j \in DOMAIN _memory_cache \ {k} :
                   j \in DOMAIN _memory_cache'
                   /\ _memory_cache'[j] = _memory_cache[j]
    /\ \A w \in Workers :
          (cpc[w] = "stats_locked" /\ cpc'[w] = "done")
          => ret'[w].count = Cardinality(DOMAIN _memory_cache)

\* C33 as stated: expired entries leave the memory cache only lazily, and
\* every get_cached(k) that returns while k is in the map with its expiry
\* passed has deleted k and returns None.
C33_FirstLookupRemoves ==
    [][/\ OnlyLazyRemoval
       /\ \A w \in Workers :
            (GetReturns(w) /\ ExpiredInMemory(ret'[w].key))
            => /\ ret'[w].key \notin DOMAIN _memory_cache'
               /\ ret'[w].value = None]_vars

\* C33 as amended: the same for the lookups that reach the memory cache
\* (memory mode, or Redis not answering); a lookup that Redis answers
\* leaves the expired entry in the map.
C33_FirstLocalLookupRemoves ==
    [][/\ OnlyLazyRemoval
       /\ \A w \in Workers :
            (GetReturns(w) /\ ExpiredInMemory(ret'[w].key))
            => IF ret'[w].via = "memory"
               THEN /\ ret'[w].key \notin DOMAIN _memory_cache'
                    /\ ret'[w].value = None
               ELSE _memory_cache' = _memory_cache]_vars

\* The lookup of the tracked key found it expired, deleted it and returned
\* None; the other key, expired as well and not looked up, is still in the
\* map.
C33_Witness ==
    /\ cpc["w1"] = "done"
    /\ ret["w1"] = [op |-> "get", key |-> TrackedKey, value |-> None,
                    via |-> "memory", count |-> 0]
    /\ clean["w1"]
    /\ last_set.store = "memory"
    /\ last_set.deadline <= now
    /\ DOMAIN _memory_cache = {"k2"}
    /\ _memory_cache["k2"][2] <= now

\* The step is the call of get_cached, set_cached or get_cache_stats by w.
CacheCalled(w) ==
    /\ cpc[w] \in {"idle", "done"}
    /\ cpc'[w] \in {"get_lock", "set_lock", "stats_lock", "done"}
    /\ now' = now
    /\ redis_up' = redis_up

\* C36: in redis mode every cache call tries Redis, whatever happened to
\* the calls before it. A call made while the server does not answer leaves
\* the client as it was (None after a failed connection, the client once
\* one is installed) and goes on to the memory cache; a call made while the
\* server answers leaves the client installed and returns from the Redis
\* branch (a set_cached whose ttl Redis refuses excepted). A client is
\* installed only by a call made while the server answers and is never
\* removed.
C36_FailoverNotSticky ==
    [][/\ _redis_client = "client" => _redis_client' = "client"
       /\ _redis_client' # _redis_client
             => redis_up /\ \E w \in Workers : CacheCalled(w)
       /\ \A w \in Workers :
            (CacheCalled(w) /\ CACHE_TYPE = "redis")
            => IF redis_up
               THEN /\ _redis_client' = "client"
                    /\ \/ cpc'[w] = "done" /\ ret'[w].via = "redis"
                       \/ /\ cpc'[w] = "set_lock"
                          /\ ~SetexAccepts(frame'[w].ttl)
               ELSE /\ _redis_client' = _redis_client
                    /\ cpc'[w] \in {"get_lock", "set_lock", "stats_lock"}]_vars

\* A write went to the memory cache while the server did not answer; the
\* server answers again, the client is installed and the lookup of the
\* other key has just been answered by Redis with the value written there.
C36_Witness ==
    /\ CACHE_TYPE = "redis"
    /\ redis_up
    /\ _redis_client = "client"
    /\ DOMAIN _memory_cache = {"k2"}
    /\ DOMAIN redis_data = {TrackedKey}
    /\ cpc["w1"] = "done"
    /\ ret["w1"].op = "get"
    /\ ret["w1"].via = "redis"
    /\ ret["w1"].value # None

-----------------------------------------------------------------------------
(* Properties of the cache behind a Redis that never answers, checked      *)
(* under FailoverSpec                                                      *)

\* What a memory-only cache returns for TrackedKey at time t, given the
\* latest completed set_cached of that key.
LocalOnlyAnswer(t) ==
    IF last_set # NoSet /\ t < last_set.deadline THEN last_set.value ELSE None

\* C17: with a Redis server that fails on every operation, redis mode is
\* indistinguishable from memory mode: in both, every set_cached and
\* get_cached call goes to the memory cache and returns from it without an
\* error, and get_cached returns what the sets made so far determine (the
\* value of the latest set of the key while its ttl has not elapsed, None
\* otherwise), so the same sequence of calls returns the same results in
\* the two modes.
C17_FailingRedisIsLocalOnly ==
    [][\A w \in Workers :
          /\ GetCalled(w) => cpc'[w] = "get_lock"
          /\ SetCalled(w) => cpc'[w] = "set_lock"
          /\ (cpc[w] = "set_locked" /\ cpc'[w] = "done")
                => ret'[w] = [op |-> "set", key |-> frame[w].key,
                              value |-> None, via |-> "memory", count |-> 0]
          /\ (cpc[w] = "get_locked" /\ cpc'[w] = "done")
                => /\ ret'[w].op = "get"
                   /\ ret'[w].via = "memory"
                   /\ frame[w].key = TrackedKey
                        => ret'[w].value = LocalOnlyAnswer(now)]_vars

\* In redis mode a tuple comes back as the tuple that was set, as it does
\* from a memory-only cache.
C17_Witness ==
    \E w \in Workers :
        /\ CACHE_TYPE = "redis"
        /\ ~redis_up
        /\ GetFollowsSet(w)
        /\ ret[w].via = "memory"
        /\ ret[w].value = "tupleA"
        /\ last_set.value = "tupleA"

-----------------------------------------------------------------------------
(* Properties of get_cache_key, checked under KeySpec *)

Keyed(i) == cache_key[i] # NoKey

\* C19: get_cache_key is a function of the prefix and of the set of
\* name/value pairs: two calls with the same prefix and the same pairs,
\* passed in whatever order, return the same key.
C19_KeyIgnoresOrder ==
    \A i, j \in RequestIds :
        (/\ Keyed(i) /\ Keyed(j)
         /\ request[i].prefix = request[j].prefix
         /\ {request[i].kwargs[p] : p \in DOMAIN request[i].kwargs}
              = {request[j].kwargs[p] : p \in DOMAIN request[j].kwargs})
        => cache_key[i] = cache_key[j]

\* The same two parameters passed in the two orders.
C19_Witness ==
    /\ Keyed(1) /\ Keyed(2)
    /\ request[1] = [prefix |-> "tasks",
                     kwargs |-> <<(<<"priority", "4">>), (<<"label", "'4'">>)>>]
    /\ request[2] = [prefix |-> "tasks",
                     kwargs |-> <<(<<"label", "'4'">>), (<<"priority", "4">>)>>]
    /\ cache_key[1] = cache_key[2]

\* C20: two requests that differ in the prefix or in a name/value pair get
\* different keys (md5 collisions aside), so the entry stored under the key
\* of a request was stored for that very query.
C20_KeySeparatesRequests ==
    /\ \A i, j \in RequestIds :
          (/\ Keyed(i) /\ Keyed(j)
           /\ \/ request[i].prefix # request[j].prefix
              \/ {request[i].kwargs[p] : p \in DOMAIN request[i].kwargs}
                   # {request[j].kwargs[p] : p \in DOMAIN request[j].kwargs})
          => cache_key[i] # cache_key[j]
    /\ \A i \in RequestIds : \A e \in entries :
          (Keyed(i) /\ e.key = cache_key[i])
          => /\ e.of.prefix = request[i].prefix
             /\ e.of.params
                  = {request[i].kwargs[p] : p \in DOMAIN request[i].kwargs}

\* priority=4 and priority='4' under the same label: two keys, two entries.
C20_Witness ==
    /\ request[1] = [prefix |-> "tasks",
                     kwargs |-> <<(<<"label", None>>), (<<"priority", "4">>)>>]
    /\ request[2] = [prefix |-> "tasks",
                     kwargs |-> <<(<<"label", None>>), (<<"priority", "'4'">>)>>]
    /\ Keyed(1) /\ Keyed(2)
    /\ cache_key[1] # cache_key[2]
    /\ Cardinality(entries) = 2

-----------------------------------------------------------------------------
(* Properties of concurrent cache calls, checked under RaceSpec *)

\* C21: whatever the interleaving of the set_cached calls of the two
\* workers, the memory cache holds under the key the value of the write that
\* took place last together with the expiry of that same write, until a
\* lookup evicts it after that expiry; and a lookup that follows within the
\* ttl returns that value.
C21_LastWriterWins ==
    /\ last_set.store = "memory"
         => \/ /\ TrackedKey \in DOMAIN _memory_cache
               /\ _memory_cache[TrackedKey]
                     = <<last_set.value, last_set.deadline>>
            \/ /\ TrackedKey \notin DOMAIN _memory_cache
               /\ now >= last_set.deadline
    /\ \A w \in Workers :
          (CACHE_TYPE = "memory" /\ GetFollowsSet(w))
          => ret[w].value = last_set.value

\* Both workers have written the key, with different values and ttls; the
\* entry is the one of the later write.
C21_Witness ==
    /\ CACHE_TYPE = "memory"
    /\ sets = 2
    /\ \A w \in Workers :
          cpc[w] = "done" /\ ret[w].op = "set" /\ ret[w].via = "memory"
    /\ last_set.value = "listB"
    /\ now = 1
    /\ _memory_cache[TrackedKey] = <<"listB", 2>>

Locked == {"get_locked", "set_locked", "stats_locked"}

\* C34: the expiry test and the deletion of get_cached are one step of the
\* worker holding the lock: a key leaves the memory cache only in the step
\* of a lookup of that key that holds the lock, and the entry it removes is
\* the one whose expiry has passed, so that once one get_cached and one
\* set_cached of the key, interleaved in any way, have both returned, the
\* entry of the write is in the memory cache for as long as it is unexpired.
C34_FreshEntrySurvivesLookup ==
    /\ [][\A k \in DOMAIN _memory_cache \ DOMAIN _memory_cache' :
            /\ _memory_cache[k][2] <= now
            /\ \E w \in Workers :
                  /\ cpc[w] = "get_locked"
                  /\ _cache_lock = w
                  /\ frame[w].key = k
                  /\ cpc'[w] = "done"]_vars
    /\ [](\A w, v \in Workers :
            (/\ sets = 1
             /\ cpc[v] = "done" /\ ret[v].op = "set"
             /\ cpc[w] = "done" /\ ret[w].op = "get"
             /\ last_set.store = "memory"
             /\ now < last_set.deadline)
            => /\ TrackedKey \in DOMAIN _memory_cache
               /\ _memory_cache[TrackedKey]
                     = <<last_set.value, last_set.deadline>>)

\* The lookup of one worker ran into the write of the other: it was called
\* before the write took place and returned after it, with the value
\* written, and the entry of the write is in the memory cache.
C34_Witness ==
    /\ sets = 1
    /\ cpc["w2"] = "done" /\ ret["w2"].op = "set"
    /\ cpc["w1"] = "done" /\ ret["w1"].op = "get"
    /\ ret["w1"].via = "memory"
    /\ ~clean["w1"]
    /\ ret["w1"].value = last_set.value
    /\ now < last_set.deadline
    /\ _memory_cache[TrackedKey] = <<last_set.value, last_set.deadline>>

\* C30: the memory cache is read, written, pruned and counted only by the
\* worker that holds _cache_lock, inside the `with _cache_lock` block of
\* get_cached, set_cached or get_cache_stats, and at most one worker is
\* inside such a block at a time.
C30_LockGuardsMemoryCache ==
    /\ [](\A w, v \in Workers :
            /\ cpc[w] \in Locked <=> _cache_lock = w
            /\ (cpc[w] \in Locked /\ cpc[v] \in Locked) => w = v)
    /\ [][\A w \in Workers :
            (\/ frame[w].op \in {"get", "set", "stats"} /\ cpc'[w] = "done"
             \/ _memory_cache' # _memory_cache /\ cpc'[w] # cpc[w])
            => (cpc[w] \in Locked /\ _cache_lock = w)]_vars

\* One worker is inside the block of set_cached while the other waits at
\* the block of get_cache_stats.
C30_Witness ==
    /\ cpc["w1"] = "set_locked"
    /\ _cache_lock = "w1"
    /\ cpc["w2"] = "stats_lock"

-----------------------------------------------------------------------------
(* Properties of the handlers, checked under HandlerSpec *)

\* The current invocation of the list handler of w has looked the key up;
\* the lookup began after the latest set_cached of the key had returned,
\* nothing has been written under the key since, and the ttl of that write
\* has not yet elapsed.
LookedUpFresh(w) ==
    /\ endpoint[w] = "list"
    /\ use_cache[w]
    /\ pc[w] \in {"upstream", "store", "sleep", "returned", "raised"}
    /\ ret[w].op = "get"
    /\ ret[w].key = TrackedKey
    /\ clean[w]
    /\ last_set # NoSet
    /\ now < last_set.deadline

\* The request of w was answered with the cached value, and when that was
\* its first invocation no upstream call was made for it.
ServedFromCache(w) ==
    /\ pc[w] = "returned"
    /\ result[w].type = "return"
    /\ result[w].value = last_set.value
    /\ calls[w] = 1 => fetches[w] = 0

\* C22 as stated: a list request with use_cache = true that finds the
\* result of an earlier request stored within the ttl, in whichever store,
\* returns that result and makes no upstream call.
C22_UnexpiredEntryServed ==
    \A w \in Workers : LookedUpFresh(w) => ServedFromCache(w)

\* C22 as amended: the same, provided the store that answers the lookup is
\* the one that took the earlier write (always so in memory mode; in redis
\* mode Redis did both, or the memory cache did both).
C22_EntryOfAnsweringStoreServed ==
    \A w \in Workers :
        (LookedUpFresh(w) /\ ret[w].via = last_set.store)
        => ServedFromCache(w)

\* A second request within the ttl is answered from Redis with the list the
\* first one stored there, without an upstream call.
C22_Witness ==
    /\ LookedUpFresh("w1")
    /\ ret["w1"].via = "redis"
    /\ last_set.store = "redis"
    /\ sets = 1
    /\ pc["w1"] = "returned"
    /\ result["w1"] = [type |-> "return", value |-> "listB", err |-> NoOutcome]
    /\ calls["w1"] = 1
    /\ fetches["w1"] = 0


\* C23: a list request with use_cache = false never calls get_cached: every
\* invocation of its handler makes an upstream call, so a request that has
\* ended made at least one, whatever the cache holds.
C23_NoCacheNoLookup ==
    \A w \in Workers :
        (endpoint[w] = "list" /\ ~use_cache[w] /\ pc[w] # "idle")
        => /\ cpc[w] \notin {"get_lock", "get_locked"}
           /\ ~(cpc[w] = "done" /\ ret[w].op = "get")
           /\ fetches[w] = calls[w]
           /\ Done(w) => fetches[w] >= 1

\* A request with use_cache = false has fetched a list upstream while the
\* memory cache holds an unexpired entry under its key.
C23_Witness ==
    /\ endpoint["w1"] = "list"
    /\ ~use_cache["w1"]
    /\ pc["w1"] = "store"
    /\ cpc["w1"] = "idle"
    /\ fetches["w1"] = 1
    /\ CACHE_TYPE = "memory"
    /\ TrackedKey \in DOMAIN _memory_cache
    /\ now < _memory_cache[TrackedKey][2]

\* A step of the request of worker w.
RequestStep(w) ==
    \/ pc'[w] # pc[w]
    \/ cpc'[w] # cpc[w]
    \/ calls'[w] # calls[w]
    \/ fetches'[w] # fetches[w]

\* C24: no step of a write request calls a cache function or changes either
\* store: the memory cache and the Redis database are after the step what
\* they were before it, so an entry stored before the write is there after
\* it, with its value and its expiry.
C24_WritesBypassCache ==
    [][\A w \in Workers :
         (endpoint'[w] = "write" /\ RequestStep(w))
         => /\ _memory_cache' = _memory_cache
            /\ redis_data' = redis_data
            /\ cpc'[w] = cpc[w]
            /\ ret'[w] = ret[w]
            /\ sets' = sets]_vars

\* A write has returned its result after an upstream call; the entry an
\* earlier list request stored is still in the memory cache, unexpired.
C24_Witness ==
    /\ endpoint["w1"] = "write"
    /\ pc["w1"] = "returned"
    /\ fetches["w1"] >= 1
    /\ sets = 1
    /\ last_set.store = "memory"
    /\ TrackedKey \in DOMAIN _memory_cache
    /\ _memory_cache[TrackedKey] = <<last_set.value, last_set.deadline>>
    /\ now < last_set.deadline

\* The entries of the memory cache that have not expired.
LiveMemory ==
    [k \in {x \in DOMAIN _memory_cache : now < _memory_cache[x][2]}
        |-> _memory_cache[k]]

\* The step stores something under key k, a new entry or another one than
\* before: in the memory cache, in Redis.
StoredInMemory(k) ==
    /\ k \in DOMAIN _memory_cache'
    /\ k \notin DOMAIN _memory_cache \/ _memory_cache'[k] # _memory_cache[k]

StoredInRedis(k) ==
    /\ k \in DOMAIN redis_data'
    /\ k \notin DOMAIN redis_data \/ redis_data'[k] # redis_data[k]

\* The list that w fetched with its latest upstream call, a 200 response.
FetchedList(w) ==
    IF last[w].kind = "ok" /\ last[w].status = 200 /\ fetches[w] >= 1
    THEN {last[w].value}
    ELSE {}

KeptInMemory(k) ==
    (k \in DOMAIN _memory_cache /\ now < _memory_cache[k][2])
    => (k \in DOMAIN _memory_cache' /\ _memory_cache'[k] = _memory_cache[k])

KeptInRedis(k) ==
    (k \in DOMAIN redis_data /\ now' < redis_data[k].expires_at)
    => (k \in DOMAIN redis_data' /\ redis_data'[k] = redis_data[k])

\* C26 as stated: from its creation until it expires, the value and the
\* expiry stored under a key do not change, whatever requests are served.
C26_EntryNeverChanges ==
    [][\A k \in Keys : KeptInMemory(k) /\ KeptInRedis(k)]_vars

\* C26 as amended: the value and the expiry stored under a key change
\* before the expiry only when the set_cached of a list request that has
\* just fetched a list upstream replaces both, by that list and by the time
\* of the call plus the ttl; lookups, failed requests and writes leave them
\* as they are.
C26_EntryChangesOnlyByStore ==
    [][\A k \in Keys :
         /\ KeptInMemory(k)
              \/ \E w \in Workers :
                    /\ pc[w] = "store"
                    /\ cpc[w] = "set_locked"
                    /\ k \in DOMAIN _memory_cache'
                    /\ _memory_cache'[k][1] \in FetchedList(w)
                    /\ _memory_cache'[k][2] = now + CACHE_TTL
         /\ KeptInRedis(k)
              \/ \E w \in Workers :
                    /\ pc[w] = "store"
                    /\ cpc'[w] = "done"
                    /\ k \in DOMAIN redis_data'
                    /\ JsonLoads(redis_data'[k].value) \in FetchedList(w)
                    /\ redis_data'[k].expires_at = now + CACHE_TTL]_vars

\* A request with use_cache = false has stored its list over the entry that
\* an earlier request had stored at the same time of the clock, hence over
\* an unexpired entry.
C26_Witness ==
    /\ CACHE_TYPE = "memory"
    /\ endpoint["w1"] = "list"
    /\ ~use_cache["w1"]
    /\ pc["w1"] = "returned"
    /\ sets = 2
    /\ now = 0
    /\ last_set.value = "listB"
    /\ _memory_cache[TrackedKey] = <<"listB", CACHE_TTL>>


\* A list request with use_cache = false that has returned has stored the
\* list it returns, and the set_cached of a list request, whatever its
\* use_cache, puts the list just fetched under the key with the expiry
\* time of the call + CACHE_TTL, in the store that takes the write.
StoresWhateverUseCache ==
    /\ [](\A w \in Workers :
            (endpoint[w] = "list" /\ ~use_cache[w] /\ pc[w] = "returned")
            => /\ ret[w].op = "set"
               /\ ret[w].key = TrackedKey
               /\ fetches[w] = calls[w]
               /\ last_set.value = result[w].value
               /\ last_set.store = ret[w].via
               /\ ~last_set.use_cache)
    /\ [][\A w \in Workers :
            (pc[w] = "store" /\ cpc[w] # "done" /\ cpc'[w] = "done")
            => /\ last_set'.use_cache = use_cache[w]
               /\ IF ret'[w].via = "redis"
                  THEN /\ TrackedKey \in DOMAIN redis_data'
                       /\ JsonLoads(redis_data'[TrackedKey].value)
                             = last[w].value
                       /\ redis_data'[TrackedKey].expires_at
                             = now + CACHE_TTL
                  ELSE /\ TrackedKey \in DOMAIN _memory_cache'
                       /\ _memory_cache'[TrackedKey]
                             = <<last[w].value, now + CACHE_TTL>>]_vars

\* C37 as stated: a successful list request stores its result whatever its
\* use_cache, and a use_cache = true request that looks the key up within
\* the ttl of what a use_cache = false request stored is answered with that
\* value without an upstream call.
C37_BypassStoreServedNext ==
    /\ StoresWhateverUseCache
    /\ [](\A w \in Workers :
            (LookedUpFresh(w) /\ ~last_set.use_cache)
            => ServedFromCache(w))

\* C37 as amended: the same, provided the store that answers the lookup
\* of the following request is the one that took the write.
C37_BypassStoreServedBySameStore ==
    /\ StoresWhateverUseCache
    /\ [](\A w \in Workers :
            (/\ LookedUpFresh(w)
             /\ ~last_set.use_cache
             /\ ret[w].via = last_set.store)
            => ServedFromCache(w))

\* A use_cache = false request has replaced, at the same time of the
\* clock, the entry an earlier request had stored; the use_cache = true
\* request that followed was answered with its list, without an upstream
\* call.
C37_Witness ==
    /\ CACHE_TYPE = "memory"
    /\ now = 0
    /\ sets = 2
    /\ ~last_set.use_cache
    /\ _memory_cache[TrackedKey] = <<last_set.value, CACHE_TTL>>
    /\ LookedUpFresh("w1")
    /\ pc["w1"] = "returned"
    /\ use_cache["w1"]
    /\ calls["w1"] = 1
    /\ fetches["w1"] = 0
    /\ result["w1"].value = last_set.value

-----------------------------------------------------------------------------
(* Properties of concurrent list requests, checked under MissSpec *)

\* The request of w has returned the list of its own upstream call, after
\* storing it.
ReturnedOwnFetch(w) ==
    /\ ret[w].op = "set"
    /\ fetches[w] >= 1
    /\ last[w].kind = "ok"
    /\ last[w].status = 200
    /\ result[w].value = last[w].value

\* The request of w has returned what its lookup found in the cache.
ReturnedCached(w) ==
    /\ ret[w].op = "get"
    /\ ret[w].value # None
    /\ result[w].value = ret[w].value

\* C27: misses are not coalesced.  A request that missed is never kept
\* from its upstream call by what the other worker is doing; a request
\* returns either what its own lookup found or the list of its own
\* upstream call, which it has stored itself; what set_cached puts under
\* the key is the list the storing worker fetched; and a step of one
\* worker, a failure included, leaves the request of the other where it
\* was.
C27_NoCoalescing ==
    /\ [](\A w \in Workers :
            /\ pc[w] = "upstream" => ENABLED Fetch(w)
            /\ pc[w] = "returned" => ReturnedOwnFetch(w) \/ ReturnedCached(w))
    /\ [][\A w \in Workers :
            /\ (cpc[w] = "set_locked" /\ cpc'[w] = "done")
                 => _memory_cache'[TrackedKey][1] \in FetchedList(w)
            /\ RequestStep(w)
                 => \A v \in Workers \ {w} :
                       /\ pc'[v] = pc[v]
                       /\ retries'[v] = retries[v]
                       /\ calls'[v] = calls[v]
                       /\ fetches'[v] = fetches[v]
                       /\ result'[v] = result[v]]_vars

\* Both workers missed the key at their first lookup, each made one
\* upstream call, the two calls answered with different lists, and each
\* worker stored and returned its own.
C27_Witness ==
    /\ \A w \in Workers :
          /\ pc[w] = "returned"
          /\ calls[w] = 1
          /\ fetches[w] = 1
          /\ ReturnedOwnFetch(w)
    /\ sets = 2
    /\ result["w1"].value = "listA"
    /\ result["w2"].value = "listB"
    /\ _memory_cache[TrackedKey][1] = "listA"

-----------------------------------------------------------------------------
(* Properties of the lock among request handlers, checked under LockSpec *)

LockWaits == {"get_lock", "set_lock", "stats_lock"}

\* C31: a worker holds _cache_lock only inside the block of get_cached or
\* set_cached; the one step it takes while holding it is that block, which
\* releases the lock and neither calls upstream, nor enters time.sleep, nor
\* touches Redis. So a worker that sleeps between retries or is at its
\* upstream call holds no lock, and while one worker sleeps the lock another
\* worker waits for is free.
C31_LockHeldForMapAccessOnly ==
    /\ [](\A w \in Workers :
            /\ _cache_lock = w
                 => /\ cpc[w] \in Locked
                    /\ pc[w] \in {"loop", "store"}
            /\ pc[w] \in {"sleep", "upstream"}
                 => /\ cpc[w] = "idle"
                    /\ _cache_lock # w
            /\ \A v \in Workers \ {w} :
                  (pc[w] = "sleep" /\ cpc[v] \in LockWaits)
                  => _cache_lock = Free)
    /\ [][\A w \in Workers :
            /\ (_cache_lock = w /\ (cpc'[w] # cpc[w] \/ pc'[w] # pc[w]))
                 => /\ cpc'[w] = "done"
                    /\ ret'[w].via = "memory"
                    /\ _cache_lock' = Free
                    /\ pc'[w] = pc[w]
                    /\ fetches' = fetches
                    /\ slept' = slept
                    /\ redis_data' = redis_data
                    /\ _redis_client' = _redis_client
            /\ (fetches'[w] # fetches[w] \/ slept'[w] # slept[w]
                   \/ (cpc[w] = "idle" /\ cpc'[w] # "idle"))
                 => _cache_lock # w /\ _cache_lock' = _cache_lock]_vars

\* One worker sleeps before its second attempt while the other is inside
\* the block of set_cached with the list it fetched.
C31_Witness ==
    /\ pc["w1"] = "sleep"
    /\ calls["w1"] = 1
    /\ pc["w2"] = "store"
    /\ cpc["w2"] = "set_locked"
    /\ _cache_lock = "w2"


\* C38: the lookup is inside the wrapped handler, so every attempt of a
\* list request with use_cache = true, a retry included, starts at the loop
\* head with no lookup made, calls upstream only after its own get_cached
\* has returned None, and returns what its get_cached found when that is a
\* value, without calling upstream; a request that returns a cached value
\* has called upstream once for each of its earlier attempts and not for
\* the last one.
C38_RetryLooksUpAgain ==
    /\ [][\A w \in Workers :
            /\ fetches'[w] = fetches[w] + 1 => pc[w] = "upstream"
            /\ (pc'[w] = "upstream" /\ pc[w] # "upstream")
                 => /\ pc[w] = "loop"
                    /\ cpc[w] = "done"
                    /\ ret[w].op = "get"
                    /\ ret[w].value = None
            /\ (pc[w] = "sleep" /\ pc'[w] # "sleep")
                 => pc'[w] = "loop" /\ cpc'[w] = "idle"
            /\ (/\ pc[w] = "loop" /\ cpc[w] = "done"
                /\ ret[w].value # None
                /\ pc'[w] # pc[w] \/ cpc'[w] # cpc[w])
                 => /\ pc'[w] = "returned"
                    /\ result'[w].type = "return"
                    /\ result'[w].value = ret[w].value
                    /\ fetches'[w] = fetches[w]
                    /\ calls'[w] = calls[w] + 1]_vars
    /\ [](\A w \in Workers :
            (pc[w] = "returned" /\ ReturnedCached(w))
            => fetches[w] = calls[w] - 1)

\* The first attempt of w1 missed and its upstream call failed in a
\* retryable way; meanwhile w2 fetched and stored the list; the second
\* attempt of w1 found it and returned it, w1 having called upstream once.
C38_Witness ==
    /\ pc["w1"] = "returned"
    /\ calls["w1"] = 2
    /\ retries["w1"] = 1
    /\ fetches["w1"] = 1
    /\ ReturnedCached("w1")
    /\ pc["w2"] = "returned"
    /\ ReturnedOwnFetch("w2")
    /\ sets = 1
    /\ result["w1"].value = result["w2"].value

====
